---- MODULE Spec2Model ----
(***************************************************************************)
(* RaftKV: a replicated key-value store.  Each node is a Go sidecar that   *)
(* embeds the hashicorp/raft engine (go-sidecar/internal/raftnode) and a   *)
(* C++ process that holds the key-value store and serves HTTP ingress.     *)
(*                                                                         *)
(* Granularity.  An RPC of the engine (RequestVote, AppendEntries) is one  *)
(* step: the request is handled by the receiver and the response by the    *)
(* sender in the same step, as the engine's transport calls are            *)
(* synchronous; a lost request or response is the step not being taken.    *)
(* Election timers and the leader lease are untimed: a timeout may fire    *)
(* whenever its guard holds.                                               *)
(***************************************************************************)
EXTENDS Integers, Sequences, FiniteSets, TLC

(* ------------------------------------------------------------------ *)
(* Bounds of the model                                                  *)
(* ------------------------------------------------------------------ *)
MaxTerm == 3
MaxLog == 5
MaxProposals == 2
MaxFaults == 1
MaxJoins == 2

(* ------------------------------------------------------------------ *)
(* The cluster of the deployment: A is started with -bootstrap true,    *)
(* B and C with -join A:6000.                                           *)
(* ------------------------------------------------------------------ *)
Node == {"A", "B", "C"}
BootstrapNode == "A"
None == "none"

Follower == "Follower"
Candidate == "Candidate"
Leader == "Leader"

LogCommand == "LogCommand"
LogNoop == "LogNoop"
LogConfiguration == "LogConfiguration"

VARIABLES
  up,            \* up[n]: the node's processes are running
  currentTerm,   \* stable store (logs.dat): current term
  votedFor,      \* stable store (logs.dat): candidate voted for in currentTerm
  log,           \* log store (logs.dat): sequence of entries
  state,         \* raft state of the engine
  votesGranted,  \* candidate: the voters that granted their vote
  matchIndex,    \* leader: highest index known replicated on each server
  commitIndex,   \* engine: commit index (volatile)
  lastApplied,   \* FSM goroutine: index of the last entry handled (volatile)
  store,         \* C++ process: the key-value map (kept in kv.db across restarts)
  delivered,     \* indices handed to CppFSM.Apply since the sidecar started
  props,         \* the propose calls made by ingress
  part,          \* the set of nodes cut off from the others (empty: no partition)
  committed,     \* history: every <<index, entry>> committed or applied by a node
  faults,        \* number of faults so far (crashes, partitions, failed Apply calls)
  joins,         \* number of join requests that reached AddVoter so far
  lim,           \* the bounds of the run: log length, faults (failures: faults
                 \* after which an Apply call may still fail), join requests
  kvdb,          \* C++ process: the content of kv.db, a sequence of characters
  mutex,         \* C++ process of the bootstrap node: the thread holding mutex_
  thr,           \* C++ process of the bootstrap node: its threads (the gRPC
                 \* thread serving Apply, the HTTP thread serving reads)
  logs,          \* log store of a long-running node, by its indices: the first
                 \* and last index stored and the last index applied
  lastSnapshot,  \* engine of that node: the index of its last snapshot
  main,          \* sidecar of a joining node: its configuration and how far
                 \* its main has come
  joiner,        \* sidecar of a joining node: its join routine
  resp,          \* management endpoint of the leader: its last answer to /join
  http,          \* C++ process of a node: its HTTP server (the connections
                 \* waiting in the listen queue, those being handled, what
                 \* it has answered)
  twin           \* the refactored state machine and the legacy one of
                 \* main.cpp, fed the same payloads: their maps

raftVars == <<currentTerm, votedFor, log, state, votesGranted, matchIndex, commitIndex>>
envVars == <<up, part, faults, joins>>
fsmVars == <<lastApplied, store, delivered, kvdb>>
storeVars == <<mutex, thr>>
snapshotVars == <<logs, lastSnapshot>>
sidecarVars == <<main, joiner, resp>>
appVars == <<http, twin>>
procVars == <<storeVars, snapshotVars, sidecarVars, appVars>>

vars == <<up, currentTerm, votedFor, log, state, votesGranted, matchIndex,
          commitIndex, lastApplied, store, delivered, props, part, committed,
          faults, joins, lim, kvdb, procVars>>

(* ------------------------------------------------------------------ *)
(* Log entries                                                          *)
(* ------------------------------------------------------------------ *)
NoCmd == [op |-> "", key |-> "", value |-> ""]

\* The IDs of a list of servers (Configuration.Servers; every server the
\* sidecar adds is a voter).
ServerIDs(ss) == {ss[i] : i \in DOMAIN ss}

\* An entry carrying the configuration with the servers ss.
ConfigEntry(t, ss) ==
  [term |-> t, type |-> LogConfiguration, voters |-> ServerIDs(ss), servers |-> ss,
   pid |-> 0, cmd |-> NoCmd]
NoopEntry(t) ==
  [term |-> t, type |-> LogNoop, voters |-> {}, servers |-> <<>>, pid |-> 0,
   cmd |-> NoCmd]
\* The entry of propose call p: its data is the payload c of the call.
CommandEntry(t, p, c) ==
  [term |-> t, type |-> LogCommand, voters |-> {}, servers |-> <<>>, pid |-> p,
   cmd |-> c]

Min(a, b) == IF a < b THEN a ELSE b
Max(a, b) == IF a > b THEN a ELSE b

LastTerm(lg) == IF Len(lg) = 0 THEN 0 ELSE lg[Len(lg)].term

\* Index of the latest configuration entry of a log (0: none).
LatestConfigIndex(lg) ==
  LET S == {i \in 1..Len(lg) : lg[i].type = LogConfiguration}
  IN IF S = {} THEN 0 ELSE CHOOSE i \in S : \A j \in S : j <= i

\* The voters of the latest configuration of a log: a configuration takes
\* effect as soon as it is in the log.
Voters(lg) ==
  IF LatestConfigIndex(lg) = 0 THEN {} ELSE lg[LatestConfigIndex(lg)].voters

\* The servers of the latest configuration of a log, in the order they were
\* added.
Servers(lg) ==
  IF LatestConfigIndex(lg) = 0 THEN <<>> ELSE lg[LatestConfigIndex(lg)].servers

\* nextConfiguration for AddVoter: a server whose ID is in the list keeps
\* its place (its address is replaced), any other is appended.
nextConfiguration(ss, id) == IF id \in ServerIDs(ss) THEN ss ELSE Append(ss, id)

\* quorumSize: a majority of the voters.
IsQuorum(S, vs) == vs # {} /\ 2 * Cardinality(S \cap vs) > Cardinality(vs)

\* Two nodes can exchange messages.
Connected(a, b) == up[a] /\ up[b] /\ ((a \in part) <=> (b \in part))

(* ------------------------------------------------------------------ *)
(* Leader commitment (commitment.recalculate): the highest index stored *)
(* on a quorum of the voters, if it is of the leader's term.            *)
(* ------------------------------------------------------------------ *)
QuorumMatch(lg, mi) ==
  LET vs == Voters(lg)
      S == {i \in 0..Len(lg) : IsQuorum({m \in vs : mi[m] >= i}, vs)}
  IN IF vs = {} THEN 0 ELSE CHOOSE i \in S : \A j \in S : j <= i

LeaderCommit(lg, mi, ci, t) ==
  LET q == QuorumMatch(lg, mi)
  IN IF q > ci /\ lg[q].term = t THEN q ELSE ci

(* ------------------------------------------------------------------ *)
(* Commands and the key-value store (C++ process)                       *)
(* ------------------------------------------------------------------ *)
Keys == {"", "j", "k"}
Nullopt == "<nullopt>"
KeyNotFound == "Key Not Found"

SetCmd(k, v) == [op |-> "SET", key |-> k, value |-> v]
DeleteCmd(k) == [op |-> "DELETE", key |-> k, value |-> ""]
\* The payloads ingress proposes: its first call sets the key, a later
\* call overwrites or deletes it.
Payloads(p) ==
  IF p = 1 THEN {SetCmd("k", "v1")} ELSE {SetCmd("k", "v2"), DeleteCmd("k")}

EmptyStore == [k \in Keys |-> Nullopt]

\* A set that overwrites nothing: the value of a key already present stays.
setIfAbsent(m, k, v) == IF m[k] = Nullopt THEN [m EXCEPT ![k] = v] ELSE m

\* A set that erases a key which holds the value already.
setOrErase(m, k, v) == IF m[k] = v THEN [m EXCEPT ![k] = Nullopt] ELSE [m EXCEPT ![k] = v]

\* PersistentKVStore::set
set(m, k, v) == [m EXCEPT ![k] = v]

\* A remove that leaves the key in the map with an empty value.
removeTombstone(m, k) == [m EXCEPT ![k] = ""]

\* PersistentKVStore::remove
remove(m, k) == [m EXCEPT ![k] = Nullopt]

\* PersistentKVStore::remove: its result, whether the key existed
erased(m, k) == m[k] # Nullopt

\* PersistentKVStore::get
get(m, k) == m[k]

\* KVHttpHandler::handle_get: the response body of GET /get-val?key=k
handle_get(m, k) == IF get(m, k) # Nullopt THEN get(m, k) ELSE KeyNotFound

\* A parse_operation that takes every op that is not DELETE for SET.
parse_operationLax(op) == IF op = "DELETE" THEN "DELETE" ELSE "SET"

parse_operation(op) ==
  IF op = "SET" THEN "SET" ELSE IF op = "DELETE" THEN "DELETE" ELSE "UNKNOWN"

\* StateMachineService::Apply on a decoded command: the map afterwards.
StateMachineApply(m, cmd) ==
  CASE parse_operation(cmd.op) = "SET" -> set(m, cmd.key, cmd.value)
    [] parse_operation(cmd.op) = "DELETE" -> remove(m, cmd.key)
    [] OTHER -> m

\* A payload is the MsgPack object ingress was sent, here a record: a map
\* with some of the fields op, key, value, or an object that is no map (raw).
Field(b, f) == IF f \in DOMAIN b THEN b[f] ELSE ""

\* The exception KVCommand::from_msgpack ends with.
Thrown == [what |-> "msgpack"]

\* A from_msgpack that yields a default-constructed command for an object
\* it cannot convert.
from_msgpackNoThrow(b) ==
  IF "raw" \in DOMAIN b
    THEN [op |-> "", key |-> "", value |-> ""]
    ELSE [op |-> Field(b, "op"), key |-> Field(b, "key"), value |-> Field(b, "value")]

\* KVCommand::from_msgpack: unpack, then convert; convert throws on an object
\* that is not a map, and leaves a field the map lacks default-constructed.
from_msgpack(b) ==
  IF "raw" \in DOMAIN b
    THEN Thrown
    ELSE [op |-> Field(b, "op"), key |-> Field(b, "key"), value |-> Field(b, "value")]

\* KVCommand::is_valid
is_valid(cmd) == parse_operation(cmd.op) # "UNKNOWN" /\ cmd.key # ""

\* StateMachineService::Apply on payload b: the map afterwards, the success
\* flag of the reply and the gRPC status.
ApplyRpc(m, b) ==
  LET cmd == from_msgpack(b)
  IN IF cmd = Thrown
       THEN [store |-> m, success |-> FALSE, status |-> "INTERNAL"]
     ELSE IF parse_operation(cmd.op) = "UNKNOWN"
       THEN [store |-> m, success |-> FALSE, status |-> "OK"]
     ELSE [store |-> StateMachineApply(m, cmd), success |-> TRUE, status |-> "OK"]

\* CppFSM.Apply: the FSM response it returns to the engine, "" for nil; the
\* reply of the store is discarded, only a failed call is an error.
CppFSMResponse(rpcOk, status) ==
  IF rpcOk /\ status = "OK" THEN "" ELSE "rpc error: " \o status

(* ------------------------------------------------------------------ *)
(* kv.db: the file the store rewrites after every mutation and reads    *)
(* when it is constructed.  The file is a sequence of characters; a     *)
(* string is written as its characters and read back from them.         *)
(* ------------------------------------------------------------------ *)

\* A value that holds a line break: any string can be a field of the
\* MsgPack map a client posts.
TwoLines == "v1\nj=v2"

\* The strings of the model, and the characters of each.
Strings == Keys \cup {"v1", "v2", TwoLines}

Chars(s) ==
  CASE s = "" -> <<>>
    [] s = "j" -> <<"j">>
    [] s = "k" -> <<"k">>
    [] s = "v1" -> <<"v", "1">>
    [] s = "v2" -> <<"v", "2">>
    [] s = TwoLines -> <<"v", "1", "\n", "j", "=", "v", "2">>

\* std::string built from characters
Str(cs) == CHOOSE s \in Strings : Chars(s) = cs

\* kv.db absent, or empty
NoFile == <<>>

\* std::string::find: the position of the first c in line, npos if none
npos == 0
find(line, c) ==
  IF \E i \in 1..Len(line) : line[i] = c
    THEN CHOOSE i \in 1..Len(line) : line[i] = c /\ \A j \in 1..(i - 1) : line[j] # c
    ELSE npos

\* The iteration orders of std::unordered_map over the entries of m
\* (unspecified by the language: any order of the keys present).
Orders(m) ==
  LET P == {k \in Keys : m[k] # Nullopt}
  IN {o \in [1..Cardinality(P) -> P] : \A i, j \in DOMAIN o : o[i] = o[j] => i = j}

\* PersistentKVStore::persist: the file is truncated, then one line
\* key=value is written per entry, in iteration order o.
RECURSIVE persistFrom(_, _, _)
persistFrom(m, o, i) ==
  IF i > Len(o) THEN <<>>
  ELSE Chars(o[i]) \o <<"=">> \o Chars(m[o[i]]) \o <<"\n">> \o persistFrom(m, o, i + 1)

persist(m, o) == persistFrom(m, o, 1)

\* The files persist may write for map m.
Files(m) == {persist(m, o) : o \in Orders(m)}

\* std::getline until it fails: the lines of file f, a last line without a
\* line break included.
RECURSIVE getline(_)
getline(f) ==
  IF f = <<>> THEN <<>>
  ELSE LET nl == find(f, "\n")
       IN IF nl = npos THEN <<f>>
          ELSE <<SubSeq(f, 1, nl - 1)>> \o getline(SubSeq(f, nl + 1, Len(f)))

\* PersistentKVStore::load: every line with a '=' sets the key before the
\* first '=' to the rest of the line; a line without '=' is skipped.
RECURSIVE loadLines(_, _, _)
loadLines(m, ls, i) ==
  IF i > Len(ls) THEN m
  ELSE LET line == ls[i]
           eq_pos == find(line, "=")
       IN IF eq_pos # npos
            THEN loadLines(set(m, Str(SubSeq(line, 1, eq_pos - 1)),
                                  Str(SubSeq(line, eq_pos + 1, Len(line)))), ls, i + 1)
            ELSE loadLines(m, ls, i + 1)

load(f) == loadLines(EmptyStore, getline(f), 1)

\* Whether StateMachineService::Apply on payload b rewrites kv.db: set
\* persists always, remove only when it erased the key.
Rewrites(m, b) ==
  LET cmd == from_msgpack(b)
  IN /\ cmd # Thrown
     /\ \/ parse_operation(cmd.op) = "SET"
        \/ parse_operation(cmd.op) = "DELETE" /\ erased(m, cmd.key)

\* A CppFSM.Apply that calls the store again when the call failed.
CppFSMApplyRetry(idx, rpcOk) == IF rpcOk THEN <<idx>> ELSE <<idx, idx>>

\* CppFSM.Apply: the Apply calls it makes to the store for the entry at idx.
\* It makes one call; a failed call is logged and returned as the FSM's
\* response, and the engine goes on to the next entry.
CppFSMApply(idx, rpcOk) == <<idx>>

(* ------------------------------------------------------------------ *)
(* The propose path: handle_insert -> GrpcRaftClient::propose ->        *)
(* Server.Propose -> Node.Apply -> raft.Apply                           *)
(* ------------------------------------------------------------------ *)
ErrNotLeader == "node is not the leader"
ErrLeadershipLost == "leadership lost while committing log"
ErrEnqueueTimeout == "timed out enqueuing operation"
Wait == "<blocked>"

\* A Node.Apply that does not wait for the future.
NodeApplyNoWait(fut) == IF fut = Wait THEN "" ELSE fut

\* A Node.Apply that drops the error of the future and returns nil.
NodeApplyDropError(fut) == IF fut = Wait THEN Wait ELSE ""

\* Node.Apply: future.Error() blocks until the future is done and returns
\* its error ("" is nil).
NodeApply(fut) == fut

\* A Server.Propose that reports success whatever Node.Apply returned.
ServerProposeAlways(err) == [Success |-> TRUE, Error |-> err]

\* Server.Propose: the ProposeResponse for the error Node.Apply returned.
ServerPropose(err) == [Success |-> err = "", Error |-> err]

\* GrpcRaftClient::propose: status.ok() && reply.success()
GrpcPropose(statusOk, reply) == statusOk /\ reply.Success

\* KVHttpHandler::handle_insert: the response body
handle_insert(success) == IF success THEN "ok" ELSE "error"

\* An ingress that applies the command to its own map before proposing it.
IngressStoreWriteThrough(m, b) == ApplyRpc(m, b).store

\* An ingress that drops the key from its own map when it proposes a
\* command for it.
IngressStoreInvalidate(m, b) == remove(m, Field(b, "key"))

\* KVHttpHandler::handle: the map after a request with body b has been
\* served.  The handler holds the store as a const reference and calls only
\* get on it; handle_insert hands the body to the raft client.
IngressStore(m, b) == m

\* A propose call: st is "idle" (not made yet), "pending" (blocked in
\* Node.Apply on node), the response body ingress got, or "lost" (the node
\* crashed under the call); err is the error Node.Apply returned; inPart
\* tells that the call is blocked on a node cut off from the others.
IdleProp == [st |-> "idle", node |-> None, err |-> "", inPart |-> FALSE]

\* The call returns to ingress once Node.Apply has returned err.
Respond(err) ==
  [IdleProp EXCEPT !.st = handle_insert(GrpcPropose(TRUE, ServerPropose(err))),
                   !.err = err]

\* The futures in flight on a leader fail when it stops being the leader.
LeadershipLost(pr, st1, st2) ==
  [p \in DOMAIN pr |->
     IF pr[p].st = "pending" /\ st1[pr[p].node] = Leader /\ st2[pr[p].node] # Leader
       THEN Respond(ErrLeadershipLost) ELSE pr[p]]

\* The command entries of a log up to index hi, in log order.
CommandIndices(lg, lo, hi) ==
  {i \in (lo + 1)..Min(hi, Len(lg)) : lg[i].type = LogCommand}

(* ------------------------------------------------------------------ *)
(* Startup                                                              *)
(* ------------------------------------------------------------------ *)
FreshDisk == [log |-> <<>>, currentTerm |-> 0, votedFor |-> None]

\* A New whose log store and stable store are in memory.
NewInmem(disk) == FreshDisk

\* A New whose stable store is in memory (the log store is on disk).
NewInmemStable(disk) == [disk EXCEPT !.currentTerm = 0, !.votedFor = None]

\* raftnode.New: the engine starts from the BoltStore under DataDir/logs.dat,
\* which is both its log store and its stable store.
New(disk) == disk

\* Node.Bootstrap (BootstrapCluster): on a node without state, the log gets
\* the configuration with the node as only voter and the term becomes 1;
\* on a node with state it fails, and main goes on.
Bootstrap(n, e) ==
  IF Len(e.log) = 0 /\ e.currentTerm = 0
    THEN [e EXCEPT !.log = <<ConfigEntry(1, <<n>>)>>, !.currentTerm = 1]
    ELSE e

\* A deployment that starts every node with -bootstrap.
StartupBootstrapAll(n, disk) == Bootstrap(n, New(disk))

\* main: New, then Bootstrap when the node is started with -bootstrap.
Startup(n, disk) ==
  IF n = BootstrapNode THEN Bootstrap(n, New(disk)) ELSE New(disk)

(* ------------------------------------------------------------------ *)
(* Init: every node has completed its first startup on an empty DataDir *)
(* ------------------------------------------------------------------ *)
Thread == {"apply", "http"}

\* A thread that is in no call of the store.
NoReturn == [returned |-> FALSE]
IdleThread == [pc |-> "idle", call |-> NoCmd, ret |-> NoReturn, ioFailed |-> FALSE,
               raised |-> FALSE, calls |-> 0]

\* The configuration the entrypoint script gives a joining node: its raft
\* port 8088, its own name as the advertised host, the management address
\* of the first node as the join address.
ReadmeConfig ==
  [NodeID |-> "node2", RaftPort |-> "8088", RaftAdvertise |-> "node2",
   JoinAddr |-> "node1:6000", Bootstrap |-> FALSE]

\* A main that launches the join routine before it creates the node.
mainOrderJoinFirst == <<"join", "start", "bootstrap", "mgmt", "serve", "running">>

\* main: the order of its steps (raftnode.New, Bootstrap, management
\* server, join routine, gRPC server), then it serves.
mainOrder == <<"start", "bootstrap", "mgmt", "join", "serve", "running">>

\* The step of main after step pc.
After(pc) ==
  LET i == CHOOSE k \in 1..Len(mainOrder) : mainOrder[k] = pc
  IN IF i < Len(mainOrder) THEN mainOrder[i + 1] ELSE "running"

\* The main of a sidecar with configuration c on the DataDir disk, before
\* its first step: the steps it has taken, what it has brought up, the
\* Propose calls its gRPC server is handling, and the termination signal.
StartMain(c, disk) ==
  [cfg |-> c, pc |-> mainOrder[1], engine |-> FALSE, mgmt |-> FALSE, serving |-> FALSE,
   disk |-> disk, steps |-> <<>>, bootErr |-> "", inflight |-> 0,
   signalled |-> FALSE, stopping |-> FALSE, shutdown |-> FALSE]

\* A join routine that was not launched.
NoJoiner == [pc |-> "off", i |-> 0, slept |-> FALSE, events |-> <<>>,
             status |-> 0, lastErr |-> "", peerID |-> "", peerAddress |-> ""]

\* The management endpoint has answered no /join request.
NoResponse == [status |-> 0, body |-> "", addVoter |-> FALSE, err |-> "",
               method |-> "", peerID |-> "", peerAddress |-> ""]

\* An HTTP server to which no client has connected.
IdleHttp == [backlog |-> <<>>, handling |-> <<>>, conns |-> 0, received |-> 0,
             sent |-> 0, gets |-> 0]

\* The two state machines before any payload, on the map m.
Twins(m) == [refactored |-> m, legacy |-> m, fed |-> 0, last |-> NoCmd]

\* The store's threads are in no call; nothing is in the log store; no
\* client has connected to the HTTP server.
StoreProcInit ==
  /\ mutex = None
  /\ thr = [t \in Thread |-> IdleThread]
  /\ logs = [first |-> 0, last |-> 0, applied |-> 0]
  /\ lastSnapshot = 0
  /\ http = IdleHttp

\* The sidecar of the joining node runs.
SidecarProcInit ==
  /\ main = [StartMain(ReadmeConfig, FreshDisk) EXCEPT
               !.pc = "running", !.engine = TRUE, !.mgmt = TRUE, !.serving = TRUE,
               !.steps = <<"engine", "mgmt", "join", "serve">>]
  /\ joiner = NoJoiner
  /\ resp = NoResponse

\* The processes of a node besides the engine, as they are once started.
ProcInit ==
  /\ StoreProcInit
  /\ SidecarProcInit
  /\ twin = Twins(EmptyStore)

\* The engines and stores of the nodes after their first start.
ClusterInit ==
  /\ up = [n \in Node |-> TRUE]
  /\ currentTerm = [n \in Node |-> Startup(n, FreshDisk).currentTerm]
  /\ votedFor = [n \in Node |-> Startup(n, FreshDisk).votedFor]
  /\ log = [n \in Node |-> Startup(n, FreshDisk).log]
  /\ state = [n \in Node |-> Follower]
  /\ votesGranted = [n \in Node |-> {}]
  /\ matchIndex = [n \in Node |-> [m \in Node |-> 0]]
  /\ commitIndex = [n \in Node |-> 0]
  /\ lastApplied = [n \in Node |-> 0]
  /\ store = [n \in Node |-> EmptyStore]
  /\ kvdb = [n \in Node |-> NoFile]
  /\ delivered = [n \in Node |-> <<>>]
  /\ props = [p \in 1..MaxProposals |-> IdleProp]
  /\ part = {}
  /\ committed = {}
  /\ faults = 0
  /\ joins = 0
  /\ lim = [log |-> MaxLog, faults |-> MaxFaults, failures |-> MaxFaults,
            joins |-> MaxJoins]

Init == ClusterInit /\ ProcInit

(* ------------------------------------------------------------------ *)
(* Engine steps                                                         *)
(* ------------------------------------------------------------------ *)

\* History: the entries up to a node's commit index are added to committed.
Committed(lg, ci) ==
  committed \cup
    UNION {{<<i, lg[n][i]>> : i \in 1..Min(ci[n], Len(lg[n]))} : n \in Node}

\* The state of node n after it wins the election of term t with log lg:
\* it appends a no-op entry of its term and restarts its commitment.
WinState(n, t, lg) ==
  LET lg2 == Append(lg, NoopEntry(t))
      mi == [m \in Node |-> IF m = n THEN Len(lg2) ELSE 0]
  IN [log |-> lg2, matchIndex |-> mi]

\* runFollower/runCandidate: the election timer fires; the node starts an
\* election if it is a voter of its latest configuration.
Timeout(n) ==
  /\ up[n]
  /\ state[n] \in {Follower, Candidate}
  /\ n \in Voters(log[n])
  /\ currentTerm[n] < MaxTerm
  /\ Len(log[n]) < lim.log
  /\ LET t == currentTerm[n] + 1
         wins == IsQuorum({n}, Voters(log[n]))
         w == WinState(n, t, log[n])
     IN /\ currentTerm' = [currentTerm EXCEPT ![n] = t]
        /\ votedFor' = [votedFor EXCEPT ![n] = n]
        /\ votesGranted' = [votesGranted EXCEPT ![n] = {n}]
        /\ IF wins
             THEN /\ state' = [state EXCEPT ![n] = Leader]
                  /\ log' = [log EXCEPT ![n] = w.log]
                  /\ matchIndex' = [matchIndex EXCEPT ![n] = w.matchIndex]
                  /\ commitIndex' = [commitIndex EXCEPT ![n] =
                        LeaderCommit(w.log, w.matchIndex, commitIndex[n], t)]
             ELSE /\ state' = [state EXCEPT ![n] = Candidate]
                  /\ UNCHANGED <<log, matchIndex, commitIndex>>
  /\ UNCHANGED <<envVars, fsmVars>>
  /\ props' = LeadershipLost(props, state, state')
  /\ UNCHANGED <<lim, procVars>>
  /\ committed' = Committed(log', commitIndex')

\* The candidate's log is at least as up to date as the voter's.
UpToDate(clog, vlog) ==
  \/ LastTerm(clog) > LastTerm(vlog)
  \/ LastTerm(clog) = LastTerm(vlog) /\ Len(clog) >= Len(vlog)

\* requestVote RPC from candidate c to voter v, and c's handling of the reply.
RequestVote(c, v) ==
  /\ c # v
  /\ state[c] = Candidate
  /\ v \in Voters(log[c])
  /\ v \notin votesGranted[c]
  /\ Connected(c, v)
  /\ IF currentTerm[v] > currentTerm[c]
       THEN \* rejected with a newer term: the candidate becomes a follower
            /\ currentTerm' = [currentTerm EXCEPT ![c] = currentTerm[v]]
            /\ votedFor' = [votedFor EXCEPT ![c] = None]
            /\ state' = [state EXCEPT ![c] = Follower]
            /\ votesGranted' = [votesGranted EXCEPT ![c] = {}]
            /\ UNCHANGED <<log, matchIndex, commitIndex>>
       ELSE LET newer == currentTerm[c] > currentTerm[v]
                vf == IF newer THEN None ELSE votedFor[v]
                grant == vf \in {None, c} /\ UpToDate(log[c], log[v])
                vg == IF grant THEN votesGranted[c] \cup {v} ELSE votesGranted[c]
                wins == grant /\ IsQuorum(vg, Voters(log[c]))
                w == WinState(c, currentTerm[c], log[c])
            IN /\ currentTerm' = [currentTerm EXCEPT ![v] = currentTerm[c]]
               /\ votedFor' = [votedFor EXCEPT ![v] = IF grant THEN c ELSE vf]
               /\ votesGranted' = [votesGranted EXCEPT ![c] = vg]
               /\ state' = [state EXCEPT
                     ![v] = IF newer THEN Follower ELSE @,
                     ![c] = IF wins THEN Leader ELSE @]
               /\ IF wins
                    THEN /\ Len(log[c]) < lim.log
                         /\ log' = [log EXCEPT ![c] = w.log]
                         /\ matchIndex' = [matchIndex EXCEPT ![c] = w.matchIndex]
                         /\ commitIndex' = [commitIndex EXCEPT ![c] =
                               LeaderCommit(w.log, w.matchIndex, commitIndex[c],
                                            currentTerm[c])]
                    ELSE UNCHANGED <<log, matchIndex, commitIndex>>
  /\ UNCHANGED <<envVars, fsmVars>>
  /\ props' = LeadershipLost(props, state, state')
  /\ UNCHANGED <<lim, procVars>>
  /\ committed' = Committed(log', commitIndex')

\* The follower's log after an appendEntries carrying the leader's log:
\* entries that conflict (same index, other term) are deleted with all that
\* follow, and the missing entries are appended.
AppendResult(flog, llog) ==
  LET C == {k \in 1..Len(llog) : k > Len(flog) \/ flog[k].term # llog[k].term}
  IN IF C = {} THEN flog
     ELSE LET k == CHOOSE i \in C : \A j \in C : i <= j
          IN SubSeq(flog, 1, k - 1) \o SubSeq(llog, k, Len(llog))

\* appendEntries RPC (replication or heartbeat) from leader l to follower f,
\* and l's handling of the reply.
AppendEntries(l, f) ==
  /\ l # f
  /\ state[l] = Leader
  /\ f \in Voters(log[l])
  /\ Connected(l, f)
  /\ IF currentTerm[f] > currentTerm[l]
       THEN \* rejected with a newer term: the leader steps down
            /\ currentTerm' = [currentTerm EXCEPT ![l] = currentTerm[f]]
            /\ votedFor' = [votedFor EXCEPT ![l] = None]
            /\ state' = [state EXCEPT ![l] = Follower]
            /\ UNCHANGED <<log, matchIndex, commitIndex, votesGranted>>
       ELSE LET flog == AppendResult(log[f], log[l])
                mi == [matchIndex[l] EXCEPT ![f] = Len(log[l])]
            IN /\ currentTerm' = [currentTerm EXCEPT ![f] = currentTerm[l]]
               /\ votedFor' = [votedFor EXCEPT ![f] =
                     IF currentTerm[l] > currentTerm[f] THEN None ELSE @]
               /\ state' = [state EXCEPT ![f] = Follower]
               /\ votesGranted' = [votesGranted EXCEPT ![f] = {}]
               /\ log' = [log EXCEPT ![f] = flog]
               /\ matchIndex' = [matchIndex EXCEPT ![l] = mi]
               /\ commitIndex' = [commitIndex EXCEPT
                     ![f] = Max(@, Min(commitIndex[l], Len(flog))),
                     ![l] = LeaderCommit(log[l], mi, @, currentTerm[l])]
  /\ UNCHANGED <<envVars, fsmVars>>
  /\ props' = LeadershipLost(props, state, state')
  /\ UNCHANGED <<lim, procVars>>
  /\ committed' = Committed(log', commitIndex')

\* checkLeaderLease: a leader that cannot reach a quorum of the voters
\* becomes a follower.
LeaderLease(n) ==
  /\ up[n]
  /\ state[n] = Leader
  /\ ~IsQuorum({m \in Node : Connected(n, m)}, Voters(log[n]))
  /\ state' = [state EXCEPT ![n] = Follower]
  /\ UNCHANGED <<currentTerm, votedFor, log, votesGranted, matchIndex, commitIndex>>
  /\ UNCHANGED <<envVars, fsmVars>>
  /\ props' = LeadershipLost(props, state, state')
  /\ UNCHANGED <<lim, procVars>>
  /\ committed' = Committed(log', commitIndex')

\* Management endpoint of the bootstrap node: /join?peerID=m calls AddVoter,
\* which appends a configuration entry on a leader whose configuration is
\* stable (the latest configuration is committed, and so is an entry of the
\* leader's term).
HandleJoin(n, m) ==
  /\ n = BootstrapNode
  /\ m # n
  /\ Connected(n, m)
  /\ joins < lim.joins
  /\ state[n] = Leader
  /\ Len(log[n]) < lim.log
  /\ LatestConfigIndex(log[n]) <= commitIndex[n]
  /\ commitIndex[n] > 0 /\ log[n][commitIndex[n]].term = currentTerm[n]
  /\ LET lg == Append(log[n], ConfigEntry(currentTerm[n], nextConfiguration(Servers(log[n]), m)))
         mi == [matchIndex[n] EXCEPT ![n] = Len(lg)]
     IN /\ log' = [log EXCEPT ![n] = lg]
        /\ matchIndex' = [matchIndex EXCEPT ![n] = mi]
        /\ commitIndex' = [commitIndex EXCEPT ![n] =
              LeaderCommit(lg, mi, @, currentTerm[n])]
  /\ joins' = joins + 1
  /\ UNCHANGED <<up, part, faults, currentTerm, votedFor, state,
                 votesGranted, fsmVars>>
  /\ props' = LeadershipLost(props, state, state')
  /\ UNCHANGED <<lim, procVars>>
  /\ committed' = Committed(log', commitIndex')

(* ------------------------------------------------------------------ *)
(* Ingress and the propose path                                         *)
(* ------------------------------------------------------------------ *)

\* POST /insert-val on node n with payload c, as call number p.  The HTTP
\* server handles one connection at a time, so a node has at most one
\* propose call in flight.  raft.Apply answers ErrNotLeader on a node that is
\* not the leader; on the leader the entry is appended to the log (or the
\* enqueue times out) and the call blocks on the future.
ProposeCall(p, n, c) ==
  /\ props[p].st = "idle"
  /\ \A q \in 1..MaxProposals : q < p => props[q].st # "idle"
  /\ up[n]
  /\ \A q \in 1..MaxProposals : ~(props[q].st = "pending" /\ props[q].node = n)
  /\ LET call == [IdleProp EXCEPT !.st = "pending", !.node = n,
                                   !.inPart = (part = {n})]
     IN IF state[n] # Leader
          THEN /\ props' = [props EXCEPT ![p] = Respond(NodeApply(ErrNotLeader))]
               /\ UNCHANGED <<log, matchIndex, commitIndex>>
          ELSE \/ /\ props' = [props EXCEPT ![p] = Respond(NodeApply(ErrEnqueueTimeout))]
                  /\ UNCHANGED <<log, matchIndex, commitIndex>>
               \/ /\ Len(log[n]) < lim.log
                  /\ LET lg == Append(log[n], CommandEntry(currentTerm[n], p, c))
                         mi == [matchIndex[n] EXCEPT ![n] = Len(lg)]
                     IN /\ log' = [log EXCEPT ![n] = lg]
                        /\ matchIndex' = [matchIndex EXCEPT ![n] = mi]
                        /\ commitIndex' = [commitIndex EXCEPT ![n] =
                              LeaderCommit(lg, mi, @, currentTerm[n])]
                  /\ props' = [props EXCEPT ![p] =
                        IF NodeApply(Wait) = Wait
                          THEN call ELSE Respond(NodeApply(Wait))]
  /\ store' = [store EXCEPT ![n] = IngressStore(@, c)]
  /\ UNCHANGED <<currentTerm, votedFor, state, votesGranted, envVars,
                 lastApplied, delivered, kvdb>>
  /\ UNCHANGED <<lim, procVars>>
  /\ committed' = Committed(log', commitIndex')

\* A GrpcRaftClient::propose whose context has no deadline.
ClientNoDeadline(p) ==
  /\ FALSE
  /\ UNCHANGED vars

\* GrpcRaftClient::propose: the 5-second deadline of the call passes before
\* Server.Propose has answered; the status is not OK.
ClientDeadline(p) ==
  /\ props[p].st = "pending"
  /\ props' = [props EXCEPT ![p] = [IdleProp EXCEPT !.st =
        handle_insert(GrpcPropose(FALSE, ServerPropose("")))]]
  /\ UNCHANGED <<raftVars, envVars, fsmVars>>
  /\ UNCHANGED <<lim, procVars>>
  /\ committed' = Committed(log', commitIndex')

(* ------------------------------------------------------------------ *)
(* The FSM goroutine                                                    *)
(* ------------------------------------------------------------------ *)

\* The engine hands the next committed command entry to CppFSM.Apply
\* (configuration and no-op entries are not handed to the FSM).  The call to
\* the store succeeds (rpcOk) or fails; either way the engine goes on, and on
\* the leader the entry's future is done without error.
FSMApply(n, rpcOk) ==
  /\ up[n]
  /\ CommandIndices(log[n], lastApplied[n], commitIndex[n]) # {}
  /\ rpcOk \/ faults < lim.failures
  /\ LET C == CommandIndices(log[n], lastApplied[n], commitIndex[n])
         i == CHOOSE j \in C : \A k \in C : j <= k
         e == log[n][i]
         pr == props[e.pid]
     IN /\ lastApplied' = [lastApplied EXCEPT ![n] = i]
        /\ delivered' = [delivered EXCEPT ![n] = @ \o CppFSMApply(i, rpcOk)]
        /\ store' = [store EXCEPT ![n] =
              IF rpcOk THEN ApplyRpc(@, e.cmd).store ELSE @]
        /\ IF rpcOk /\ Rewrites(store[n], e.cmd)
             THEN \E f \in Files(ApplyRpc(store[n], e.cmd).store) :
                    kvdb' = [kvdb EXCEPT ![n] = f]
             ELSE UNCHANGED kvdb
        /\ faults' = IF rpcOk THEN faults ELSE faults + 1
        /\ props' = IF /\ pr.st = "pending" /\ pr.node = n
                       /\ state[n] = Leader /\ e.term = currentTerm[n]
                      THEN [props EXCEPT ![e.pid] = Respond(NodeApply(""))]
                      ELSE props
  /\ UNCHANGED <<raftVars, up, part, joins>>
  /\ UNCHANGED <<lim, procVars>>
  /\ committed' = Committed(log', commitIndex')

(* ------------------------------------------------------------------ *)
(* Failures                                                             *)
(* ------------------------------------------------------------------ *)

\* The node's processes stop: what is not on disk is gone, and a propose
\* call in flight on the node is gone with its caller.
Crash(n) ==
  /\ up[n]
  /\ faults < lim.faults
  /\ up' = [up EXCEPT ![n] = FALSE]
  /\ faults' = faults + 1
  /\ state' = [state EXCEPT ![n] = Follower]
  /\ votesGranted' = [votesGranted EXCEPT ![n] = {}]
  /\ matchIndex' = [matchIndex EXCEPT ![n] = [m \in Node |-> 0]]
  /\ commitIndex' = [commitIndex EXCEPT ![n] = 0]
  /\ lastApplied' = [lastApplied EXCEPT ![n] = 0]
  /\ delivered' = [delivered EXCEPT ![n] = <<>>]
  /\ props' = [p \in DOMAIN props |->
        IF props[p].st = "pending" /\ props[p].node = n
          THEN [IdleProp EXCEPT !.st = "lost"] ELSE props[p]]
  /\ UNCHANGED <<currentTerm, votedFor, log, store, kvdb, part, joins>>
  /\ UNCHANGED <<lim, procVars>>
  /\ committed' = Committed(log', commitIndex')

\* The node starts again on its DataDir and kv.db: main runs New (and
\* Bootstrap on the bootstrap node); the store is loaded from kv.db.
Restart(n) ==
  /\ ~up[n]
  /\ up' = [up EXCEPT ![n] = TRUE]
  /\ LET e == Startup(n, [log |-> log[n], currentTerm |-> currentTerm[n],
                          votedFor |-> votedFor[n]])
     IN /\ log' = [log EXCEPT ![n] = e.log]
        /\ currentTerm' = [currentTerm EXCEPT ![n] = e.currentTerm]
        /\ votedFor' = [votedFor EXCEPT ![n] = e.votedFor]
  /\ store' = [store EXCEPT ![n] = load(kvdb[n])]
  /\ UNCHANGED <<state, votesGranted, matchIndex, commitIndex, lastApplied,
                 delivered, kvdb, props,
                 part, faults, joins>>
  /\ UNCHANGED <<lim, procVars>>
  /\ committed' = Committed(log', commitIndex')

Partition(n) ==
  /\ part = {}
  /\ faults < lim.faults
  /\ part' = {n}
  /\ faults' = faults + 1
  /\ UNCHANGED <<raftVars, fsmVars, props, up, joins>>
  /\ UNCHANGED <<lim, procVars>>
  /\ committed' = Committed(log', commitIndex')

Heal ==
  /\ part # {}
  /\ part' = {}
  /\ props' = [p \in DOMAIN props |-> [props[p] EXCEPT !.inPart = FALSE]]
  /\ UNCHANGED <<raftVars, fsmVars, up, faults, joins>>
  /\ UNCHANGED <<lim, procVars>>
  /\ committed' = Committed(log', commitIndex')

Next ==
  \/ \E n \in Node : Timeout(n)
  \/ \E c, v \in Node : RequestVote(c, v)
  \/ \E l, f \in Node : AppendEntries(l, f)
  \/ \E n \in Node : LeaderLease(n)
  \/ \E n, m \in Node : HandleJoin(n, m)
  \/ \E p \in 1..MaxProposals, n \in Node : \E c \in Payloads(p) : ProposeCall(p, n, c)
  \/ \E p \in 1..MaxProposals : ClientDeadline(p)
  \/ \E n \in Node, rpcOk \in BOOLEAN : FSMApply(n, rpcOk)
  \/ \E n \in Node : Crash(n)
  \/ \E n \in Node : Restart(n)
  \/ \E n \in Node : Partition(n)
  \/ Heal

Spec == Init /\ [][Next]_vars

\* The deadline of a blocked propose call passes: the timer of the client's
\* context fires unless the call has returned.
LiveSpec == Spec /\ \A p \in 1..MaxProposals : WF_vars(ClientDeadline(p))

(* ------------------------------------------------------------------ *)
(* The formed cluster: the deployment of the README once B and C have   *)
(* joined through A's management endpoint and every node has stored and *)
(* committed the four entries this takes; the propose calls made so far *)
(* went to a follower and were rejected, one call is still to be made.  *)
(* Runs that start here have room for a change of leader followed by a  *)
(* proposal.                                                            *)
(* ------------------------------------------------------------------ *)
FormedMaxLog == 6
FormedMaxFailures == 2
FormedMaxJoins == 3

FormedLog ==
  <<ConfigEntry(1, <<BootstrapNode>>), NoopEntry(2),
    ConfigEntry(2, <<BootstrapNode, "B">>), ConfigEntry(2, <<BootstrapNode, "B", "C">>)>>

FormedCluster ==
  /\ up = [n \in Node |-> TRUE]
  /\ currentTerm = [n \in Node |-> 2]
  /\ votedFor = [n \in Node |-> IF n = BootstrapNode THEN n ELSE None]
  /\ log = [n \in Node |-> FormedLog]
  /\ state = [n \in Node |-> IF n = BootstrapNode THEN Leader ELSE Follower]
  /\ votesGranted = [n \in Node |-> IF n = BootstrapNode THEN {n} ELSE {}]
  /\ matchIndex = [n \in Node |->
        [m \in Node |-> IF n = BootstrapNode THEN Len(FormedLog) ELSE 0]]
  /\ commitIndex = [n \in Node |-> Len(FormedLog)]
  /\ lastApplied = [n \in Node |-> 0]
  /\ store = [n \in Node |-> EmptyStore]
  /\ kvdb = [n \in Node |-> NoFile]
  /\ delivered = [n \in Node |-> <<>>]
  /\ props = [p \in 1..MaxProposals |->
        IF p < MaxProposals THEN Respond(NodeApply(ErrNotLeader)) ELSE IdleProp]
  /\ part = {}
  /\ committed = {<<i, FormedLog[i]>> : i \in 1..Len(FormedLog)}
  /\ faults = 0
  /\ joins = 2

\* The formed cluster a little later: C has been cut off, and meanwhile the
\* first propose call, made on A, has been committed by A and B, handled by
\* A's state machine and answered "ok".
PartitionedLog == Append(FormedLog, CommandEntry(2, 1, SetCmd("k", "v1")))

PartitionedCluster ==
  /\ up = [n \in Node |-> TRUE]
  /\ currentTerm = [n \in Node |-> 2]
  /\ votedFor = [n \in Node |-> IF n = BootstrapNode THEN n ELSE None]
  /\ log = [n \in Node |-> IF n = "C" THEN FormedLog ELSE PartitionedLog]
  /\ state = [n \in Node |-> IF n = BootstrapNode THEN Leader ELSE Follower]
  /\ votesGranted = [n \in Node |-> IF n = BootstrapNode THEN {n} ELSE {}]
  /\ matchIndex = [n \in Node |->
        [m \in Node |-> IF n = BootstrapNode THEN Len(log[m]) ELSE 0]]
  /\ commitIndex = [n \in Node |-> Len(log[n])]
  /\ lastApplied = [n \in Node |->
        IF n = BootstrapNode THEN Len(PartitionedLog) ELSE 0]
  /\ store = [n \in Node |->
        IF n = BootstrapNode THEN set(EmptyStore, "k", "v1") ELSE EmptyStore]
  /\ kvdb = [n \in Node |->
        IF n = BootstrapNode THEN persist(store[n], <<"k">>) ELSE NoFile]
  /\ delivered = [n \in Node |->
        IF n = BootstrapNode THEN <<Len(PartitionedLog)>> ELSE <<>>]
  /\ props = [p \in 1..MaxProposals |->
        IF p = 1 THEN Respond(NodeApply("")) ELSE IdleProp]
  /\ part = {"C"}
  /\ committed = {<<i, PartitionedLog[i]>> : i \in 1..Len(PartitionedLog)}
  /\ faults = 1
  /\ joins = 2

FormedInit ==
  /\ FormedCluster \/ PartitionedCluster
  /\ ProcInit
  /\ lim = [log |-> FormedMaxLog, faults |-> MaxFaults,
            failures |-> FormedMaxFailures, joins |-> FormedMaxJoins]

FormedSpec == FormedInit /\ [][Next]_vars

(* ------------------------------------------------------------------ *)
(* The state machine under any committed log: node A, alone in its      *)
(* cluster and its leader, has committed up to MaxCommands commands     *)
(* whose payloads are whatever was posted to /insert-val (handle_insert *)
(* proposes the request body as it is), and its engine hands them to    *)
(* the store one by one.  The calls that proposed them are over (their  *)
(* deadline has passed).                                                *)
(* ------------------------------------------------------------------ *)
MaxCommands == 3

Values == {"v1", "v2"}

\* A command whose op is none of the store's, as a client may post it.
UpsertCmd(k, v) == [op |-> "UPSERT", key |-> k, value |-> v]

AnyPayload ==
  {SetCmd(k, v) : k \in Keys, v \in {"v1"}}
    \cup {SetCmd("k", "v2")}
    \cup {DeleteCmd(k) : k \in Keys}
    \cup {UpsertCmd("k", "v2"), [op |-> "SET"], [raw |-> "\\xc1"]}

RECURSIVE SeqsUpTo(_, _)
SeqsUpTo(S, n) ==
  IF n = 0 THEN {<<>>}
  ELSE LET T == SeqsUpTo(S, n - 1)
       IN T \cup {Append(t, x) : t \in {u \in T : Len(u) = n - 1}, x \in S}

CommittedLog(cs) ==
  <<ConfigEntry(1, <<BootstrapNode>>), NoopEntry(2)>>
    \o [i \in 1..Len(cs) |-> CommandEntry(2, 1, cs[i])]

ApplyInit ==
  /\ ProcInit
  /\ up = [n \in Node |-> TRUE]
  /\ currentTerm = [n \in Node |-> IF n = BootstrapNode THEN 2 ELSE 0]
  /\ votedFor = [n \in Node |-> IF n = BootstrapNode THEN n ELSE None]
  /\ \E cs \in SeqsUpTo(AnyPayload, MaxCommands) \ {<<>>} :
       /\ log = [n \in Node |-> IF n = BootstrapNode THEN CommittedLog(cs) ELSE <<>>]
       /\ commitIndex = [n \in Node |-> Len(log[n])]
       /\ matchIndex = [n \in Node |->
            [m \in Node |-> IF n = BootstrapNode /\ m = n THEN Len(log[n]) ELSE 0]]
       /\ committed = {<<i, log[BootstrapNode][i]>> : i \in 1..Len(log[BootstrapNode])}
  /\ state = [n \in Node |-> IF n = BootstrapNode THEN Leader ELSE Follower]
  /\ votesGranted = [n \in Node |-> IF n = BootstrapNode THEN {n} ELSE {}]
  /\ lastApplied = [n \in Node |-> 0]
  /\ store = [n \in Node |-> EmptyStore]
  /\ kvdb = [n \in Node |-> NoFile]
  /\ delivered = [n \in Node |-> <<>>]
  /\ props = [p \in 1..MaxProposals |->
        [IdleProp EXCEPT !.st = handle_insert(GrpcPropose(FALSE, ServerPropose("")))]]
  /\ part = {}
  /\ faults = 0
  /\ joins = 0
  /\ lim = [log |-> 2 + MaxCommands, faults |-> 0, failures |-> 0, joins |-> 0]

ApplyNext == \E n \in Node, rpcOk \in BOOLEAN : FSMApply(n, rpcOk)

ApplySpec == ApplyInit /\ [][ApplyNext]_vars

(* ------------------------------------------------------------------ *)
(* Properties                                                           *)
(* ------------------------------------------------------------------ *)

\* C1: for every log index, at most one entry is ever committed at it in the
\* whole cluster: an entry a node commits or applies at index i is the entry
\* every other node has committed at i, whatever elections, crashes,
\* restarts, partitions and membership changes happen in between.
OneEntryPerIndex ==
  \A x, y \in committed : x[1] = y[1] => x[2] = y[2]

\* A cluster of three voters in which a leader elected in a later term and
\* another node both hold the committed membership change, after a fault.
OneEntryPerIndexWitness ==
  \E l, n \in Node :
    /\ l # n
    /\ state[l] = Leader /\ currentTerm[l] = 3
    /\ Voters(log[l]) = Node
    /\ commitIndex[l] >= 4 /\ commitIndex[n] >= 4
    /\ faults = 1

\* C2: in every reachable state, no two nodes are leader in the same term.
ElectionSafety ==
  \A a, b \in Node :
    (a # b /\ state[a] = Leader /\ state[b] = Leader) => currentTerm[a] # currentTerm[b]

\* Two nodes are leader at once, in different terms, in a cluster of three
\* voters: the old leader has not yet learnt of the election it lost.
ElectionSafetyWitness ==
  \E a, b \in Node :
    /\ a # b
    /\ state[a] = Leader /\ state[b] = Leader
    /\ Voters(log[a]) = Node
    /\ currentTerm[a] < currentTerm[b]

\* The configurations under which the entry at index i of log lg can be
\* committed: the one in force when it was appended, and the later ones.
ConfigsFor(lg, i) ==
  {c \in 1..Len(lg) : /\ lg[c].type = LogConfiguration
                      /\ c >= LatestConfigIndex(SubSeq(lg, 1, i))}

\* The entry of propose call p is in the log of node n, is committed, and is
\* stored in the logs of a quorum of the voters.
StoredOnQuorum(n, p) ==
  \E i \in 1..Len(log[n]) :
    /\ log[n][i].type = LogCommand /\ log[n][i].pid = p
    /\ <<i, log[n][i]>> \in committed
    /\ \E c \in ConfigsFor(log[n], i) :
         IsQuorum({m \in Node : Len(log[m]) >= i /\ log[m][i] = log[n][i]},
                  log[n][c].voters)

\* C3: when a propose call is answered "ok" (Propose returned Success=true),
\* its payload is committed and stored in the logs of a quorum of the voters;
\* and a call for which Node.Apply returned an error is answered "error".
ProposeSuccessOnlyAfterCommit ==
  [][\A p \in 1..MaxProposals :
       /\ (props[p].st # "ok" /\ props'[p].st = "ok") =>
            \E n \in Node : StoredOnQuorum(n, p)'
       /\ props'[p].err # "" => props'[p].st = "error"]_vars

\* One call has been answered "ok" in a cluster of three voters, and another
\* has been answered "error" for an error of Node.Apply.
ProposeSuccessWitness ==
  \E p, q \in 1..MaxProposals, n \in Node :
    /\ props[p].st = "ok" /\ props[q].err # ""
    /\ Voters(log[n]) = Node
    /\ \E i \in 1..Len(log[n]) : log[n][i].type = LogCommand /\ log[n][i].pid = p

\* C4 as stated: on every node the indices delivered to the store are
\* exactly 1, 2, 3, ...
DeliveredIsOneTwoThree ==
  \A n \in Node : \A k \in 1..Len(delivered[n]) : delivered[n][k] = k

\* C4, amended: on every node, the indices a running sidecar hands to
\* CppFSM.Apply are strictly ascending, none twice, and they are exactly the
\* indices of the command entries of the node's log up to the last one
\* handled, which is committed; a failed Apply call changes none of this.
DeliveredCommandsInOrder ==
  \A n \in Node :
    /\ \A k \in 1..(Len(delivered[n]) - 1) : delivered[n][k] < delivered[n][k + 1]
    /\ {delivered[n][k] : k \in 1..Len(delivered[n])} =
          CommandIndices(log[n], 0, lastApplied[n])
    /\ lastApplied[n] <= commitIndex[n]

\* A node has handed two entries to CppFSM.Apply, and the call for the
\* second one failed: the store still holds the value of the first.
DeliveredCommandsWitness ==
  \E n \in Node :
    /\ Len(delivered[n]) = 2
    /\ log[n][delivered[n][2]].cmd = SetCmd("k", "v2")
    /\ store[n]["k"] = "v1"

\* The store that results from applying, in index order, the command
\* entries of log lg up to index i to the empty store.
RECURSIVE ApplyUpTo(_, _)
ApplyUpTo(lg, i) ==
  IF i = 0 THEN EmptyStore
  ELSE IF lg[i].type = LogCommand
         THEN StateMachineApply(ApplyUpTo(lg, i - 1), lg[i].cmd)
         ELSE ApplyUpTo(lg, i - 1)

\* The engine of node n has handled every command entry committed so far.
AllDelivered(n) ==
  /\ up[n]
  /\ \E x \in committed : x[2].type = LogCommand
  /\ \A x \in committed : x[2].type = LogCommand => x[1] <= lastApplied[n]

\* C5, in finite form: on a node whose engine has handled every committed
\* entry, the store holds the result of applying the committed entries; no
\* committed entry is missing from the store.
CommittedEntriesApplied ==
  \A n \in Node : AllDelivered(n) => store[n] = ApplyUpTo(log[n], lastApplied[n])

\* C6: two nodes whose engines have delivered the entries up through the
\* same index return the same value for every key.
Agreement ==
  \A x, y \in Node :
    (up[x] /\ up[y] /\ lastApplied[x] = lastApplied[y] /\ lastApplied[x] >= 1) =>
      \A k \in Keys : get(store[x], k) = get(store[y], k)

\* No entry committed after index i modifies key k.
NoLaterWrite(i, k) ==
  \A x \in committed : (x[1] > i /\ x[2].type = LogCommand) => x[2].cmd.key # k

\* C7, in finite form: after a call proposing SET k v has been answered
\* "ok", a node whose engine has handled every committed entry returns v for
\* GET k, provided no later committed entry modifies k.
SetGetRoundTrip ==
  \A p \in 1..MaxProposals, x \in committed, n \in Node :
    (/\ props[p].st = "ok"
     /\ x[2].type = LogCommand /\ x[2].pid = p /\ x[2].cmd.op = "SET"
     /\ NoLaterWrite(x[1], x[2].cmd.key)
     /\ AllDelivered(n)) =>
      handle_get(store[n], x[2].cmd.key) = x[2].cmd.value

\* C8: a propose call on a node that is not the leader is answered "error"
\* with the not-leader error of Node.Apply, and no node's log, commit index
\* or store changes in the call.
NonLeaderProposeRejected ==
  [][\A p \in 1..MaxProposals, n \in Node : \A c \in Payloads(p) :
       (ProposeCall(p, n, c) /\ state[n] # Leader) =>
         /\ props'[p].st = "error" /\ props'[p].err = ErrNotLeader
         /\ log' = log /\ commitIndex' = commitIndex /\ store' = store]_vars

\* A call has been rejected with the not-leader error while another node
\* leads a cluster of at least two voters.
NonLeaderProposeWitness ==
  \E p \in 1..MaxProposals, l \in Node :
    /\ props[p].st = "error" /\ props[p].err = ErrNotLeader
    /\ state[l] = Leader /\ Cardinality(Voters(log[l])) >= 2

\* The nodes on node n's side of the partition.
Side(n) == IF n \in part THEN part ELSE Node \ part

\* Node n is on a side of a partition that holds no quorum of the voters,
\* by the configuration of any node of that side.
MinoritySide(n) ==
  /\ part # {}
  /\ \A m \in Side(n) : ~IsQuorum(Side(n), Voters(log[m]))

\* The entry of propose call p is committed.
ProposalCommitted(p) ==
  \E x \in committed : x[2].type = LogCommand /\ x[2].pid = p

\* C9: while a partition lasts, a node on a minority side does not become
\* leader and its commit index does not advance; a call made to it during
\* the partition is not answered "ok" and its entry is not committed.
MinorityCannotCommit ==
  [][(part # {} /\ part' = part) =>
       \A n \in Node : MinoritySide(n) =>
         /\ state'[n] = Leader => state[n] = Leader
         /\ commitIndex'[n] <= commitIndex[n]
         /\ \A p \in 1..MaxProposals :
              /\ (props[p].st = "pending" /\ props[p].node = n /\ props[p].inPart) =>
                   (props'[p].st # "ok" /\ ~ProposalCommitted(p)')
              /\ \A c \in Payloads(p) : ProposeCall(p, n, c) => props'[p].st # "ok"]_vars

\* A call is blocked on a leader that a partition has left on a minority
\* side, while the other side has elected a leader in a later term.
MinorityWitness ==
  \E p \in 1..MaxProposals, l \in Node :
    /\ props[p].st = "pending" /\ props[p].inPart
    /\ MinoritySide(props[p].node)
    /\ l \notin part /\ state[l] = Leader
    /\ currentTerm[l] > currentTerm[props[p].node]

\* C10: every propose call that blocks eventually returns to its caller
\* with "ok" or "error", unless the node crashes under it.
ProposeReturns ==
  \A p \in 1..MaxProposals :
    (props[p].st = "pending") ~> (props[p].st \in {"ok", "error", "lost"})

\* A call is blocked on a leader that has lost contact with the quorum.
ProposeReturnsWitness ==
  \E p \in 1..MaxProposals :
    /\ props[p].st = "pending"
    /\ MinoritySide(props[p].node)
    /\ state[props[p].node] = Leader

\* C11, in finite form: once the partition has healed and the engine of the
\* node that was cut off (C) has handled every committed entry, GET on that
\* node returns the value of the SET committed during the partition (the
\* last entry of PartitionedLog), provided no later committed entry modifies
\* the key.
HealedNodeCatchesUp ==
  \A x \in committed :
    (/\ x[2] = PartitionedLog[Len(PartitionedLog)] /\ x[1] = Len(PartitionedLog)
     /\ part = {}
     /\ NoLaterWrite(x[1], x[2].cmd.key)
     /\ AllDelivered("C")) =>
      handle_get(store["C"], x[2].cmd.key) = x[2].cmd.value

\* C12, in finite form: in the three-voter cluster whose leader A has
\* stopped (A has taken no part in a later term and has stored no later
\* entry), after a SET proposed through the new leader has been committed
\* in the new leader's term and answered "ok", GET on the other surviving
\* node returns the value once that node's engine has handled every
\* committed entry, provided no later committed entry modifies the key.
FailoverServesWrites ==
  \A p \in 1..MaxProposals, x \in committed, l, m \in Node \ {BootstrapNode} :
    (/\ ~up[BootstrapNode]
     /\ log[BootstrapNode] = FormedLog
     /\ currentTerm[BootstrapNode] = FormedLog[Len(FormedLog)].term
     /\ Voters(log[l]) = Node
     /\ l # m /\ state[l] = Leader
     /\ x[2].type = LogCommand /\ x[2].pid = p /\ x[2].cmd.op = "SET"
     /\ x[2].term = currentTerm[l] /\ x[2].term > FormedLog[Len(FormedLog)].term
     /\ props[p].st = "ok"
     /\ NoLaterWrite(x[1], x[2].cmd.key)
     /\ AllDelivered(m)) =>
      handle_get(store[m], x[2].cmd.key) = x[2].cmd.value

\* C13, in finite form: on the bootstrapped node, alone in its cluster (no
\* join request has been made, the node is the only voter), a propose call
\* that has been answered "ok" has its entry applied locally: once the
\* node's engine has handled every committed entry, its map is the result
\* of applying the command entries of its log in order.
SingleNodeAppliesLocally ==
  \A p \in 1..MaxProposals :
    (/\ joins = 0 /\ Voters(log[BootstrapNode]) = {BootstrapNode}
     /\ state[BootstrapNode] = Leader
     /\ props[p].st = "ok"
     /\ AllDelivered(BootstrapNode)) =>
      store[BootstrapNode] =
        ApplyUpTo(log[BootstrapNode], lastApplied[BootstrapNode])

\* The payload of the entry the engine of node n hands to the store next.
NextPayload(n) ==
  LET C == CommandIndices(log[n], lastApplied[n], commitIndex[n])
  IN log[n][CHOOSE j \in C : \A k \in C : j <= k].cmd

\* Payload b decodes to a command on key k.
IsFor(b, k) == from_msgpack(b) # Thrown /\ from_msgpack(b).key = k

\* C14: when SET k v is applied on a node, Get(k) on it returns v from then
\* on, and applying an entry never changes the value of a key other than
\* its own; so Get(k) keeps returning v until a later entry for k is applied.
SetThenGet ==
  [][\A n \in Node : FSMApply(n, TRUE) =>
       LET b == NextPayload(n)
       IN /\ \A k \in Keys, v \in Values :
               b = SetCmd(k, v) => get(store'[n], k) = v
          /\ \A k \in Keys :
               ~IsFor(b, k) => get(store'[n], k) = get(store[n], k)]_vars

\* SET k v1 has been applied, then an entry for another key and an entry
\* overwriting k: Get(k) returned v1 in between and returns v2 now.
SetThenGetWitness ==
  /\ Len(log[BootstrapNode]) = 5
  /\ log[BootstrapNode][3].cmd = SetCmd("k", "v1")
  /\ log[BootstrapNode][4].cmd = SetCmd("j", "v1")
  /\ log[BootstrapNode][5].cmd = SetCmd("k", "v2")
  /\ lastApplied[BootstrapNode] = 5
  /\ get(store[BootstrapNode], "k") = "v2"
  /\ get(store[BootstrapNode], "j") = "v1"

\* C15: a command with an empty key is a no-op when applied: no entry for
\* the empty key is ever created in a node's map.
NoEmptyKeyEntry == \A n \in Node : get(store[n], "") = Nullopt

\* The payloads of the command entries of lg up to index i, in log order.
RECURSIVE AppliedPayloads(_, _)
AppliedPayloads(lg, i) ==
  IF i = 0 THEN <<>>
  ELSE IF lg[i].type = LogCommand
         THEN Append(AppliedPayloads(lg, i - 1), lg[i].cmd)
         ELSE AppliedPayloads(lg, i - 1)

\* The map after the store has been handed the payloads bs, from map m.
RECURSIVE Fold(_, _)
Fold(m, bs) ==
  IF bs = <<>> THEN m ELSE Fold(ApplyRpc(m, Head(bs)).store, Tail(bs))

\* Payload b decodes to a command whose op is neither SET nor DELETE.
UnknownOp(b) ==
  from_msgpack(b) # Thrown /\ from_msgpack(b).op \notin {"SET", "DELETE"}

KnownOp(b) == ~UnknownOp(b)

\* C16: a committed command whose op is neither SET nor DELETE leaves the
\* map unchanged when applied, and the commands after it are still applied
\* in order: a node's map is what the entries handed to its store give with
\* the unknown-op entries left out, and the engine is never stopped by one
\* (the node stays up and the store answers the call with status OK).
UnknownOpSkipped ==
  \A n \in Node :
    LET bs == AppliedPayloads(log[n], lastApplied[n])
    IN /\ store[n] = Fold(EmptyStore, SelectSeq(bs, KnownOp))
       /\ up[n]
       /\ \A i \in 1..Len(bs) :
            UnknownOp(bs[i]) =>
              CppFSMResponse(TRUE, ApplyRpc(EmptyStore, bs[i]).status) = ""

\* An UPSERT has been applied between a SET and a later SET, which both
\* took effect.
UnknownOpWitness ==
  /\ Len(log[BootstrapNode]) = 5
  /\ log[BootstrapNode][3].cmd = SetCmd("k", "v1")
  /\ log[BootstrapNode][4].cmd = UpsertCmd("k", "v2")
  /\ log[BootstrapNode][5].cmd = SetCmd("j", "v1")
  /\ lastApplied[BootstrapNode] = 5
  /\ get(store[BootstrapNode], "k") = "v1"
  /\ get(store[BootstrapNode], "j") = "v1"

\* C17: a committed payload that cannot be decoded leaves the map unchanged
\* when applied, the failure is reported to the engine (the FSM response is
\* an error), the node keeps running, and the engine goes on: the entry
\* counts as handled and the next apply step takes the next command entry.
UndecodableReported ==
  [][\A n \in Node : FSMApply(n, TRUE) =>
       LET b == NextPayload(n)
           r == ApplyRpc(store[n], b)
       IN /\ store'[n] = r.store
          /\ Len(delivered'[n]) = Len(delivered[n]) + 1
          /\ lastApplied'[n] > lastApplied[n]
          /\ log[n][lastApplied'[n]].cmd = b
          /\ CommandIndices(log[n], lastApplied[n], lastApplied'[n] - 1) = {}
          /\ "raw" \in DOMAIN b =>
               /\ store'[n] = store[n]
               /\ ~r.success
               /\ CppFSMResponse(TRUE, r.status) # ""
               /\ up'[n]]_vars

\* An undecodable payload has been applied between a SET and a DELETE,
\* which both took effect.
UndecodableWitness ==
  /\ Len(log[BootstrapNode]) = 5
  /\ log[BootstrapNode][3].cmd = SetCmd("k", "v1")
  /\ "raw" \in DOMAIN log[BootstrapNode][4].cmd
  /\ log[BootstrapNode][5].cmd = DeleteCmd("k")
  /\ lastApplied[BootstrapNode] = 5
  /\ delivered[BootstrapNode] = <<3, 4, 5>>
  /\ get(store[BootstrapNode], "k") = Nullopt

\* C18: DELETE is idempotent.  After an apply step of DELETE k, removing k
\* again would leave the map as it is and report that the key did not
\* exist, and Get(k) answers "Key Not Found"; and an apply step of DELETE k
\* that directly follows one of DELETE k changes nothing.
DeleteIdempotent ==
  [][\A n \in Node, k \in Keys :
       (FSMApply(n, TRUE) /\ NextPayload(n) = DeleteCmd(k)) =>
         /\ remove(store'[n], k) = store'[n]
         /\ ~erased(store'[n], k)
         /\ handle_get(store'[n], k) = KeyNotFound
         /\ (/\ delivered[n] # <<>>
             /\ log[n][delivered[n][Len(delivered[n])]].cmd = DeleteCmd(k)) =>
              (store'[n] = store[n] /\ ~erased(store[n], k))]_vars

\* SET k, DELETE k and DELETE k again have been applied.
DeleteTwiceWitness ==
  /\ Len(log[BootstrapNode]) = 5
  /\ log[BootstrapNode][3].cmd = SetCmd("k", "v1")
  /\ log[BootstrapNode][4].cmd = DeleteCmd("k")
  /\ log[BootstrapNode][5].cmd = DeleteCmd("k")
  /\ delivered[BootstrapNode] = <<3, 4, 5>>
  /\ handle_get(store[BootstrapNode], "k") = KeyNotFound

\* C19: a node's map changes only when its state machine applies a
\* committed entry: every change of a map is one apply step of the node,
\* which hands one committed SET or DELETE entry to the store, and the map
\* afterwards is the map before with that command applied.  No ingress
\* request (propose call, its answer or its deadline) changes a map.
MapChangesOnlyByApply ==
  [][\A n \in Node : store'[n] # store[n] =>
       /\ FSMApply(n, TRUE)
       /\ Len(delivered'[n]) = Len(delivered[n]) + 1
       /\ LET i == lastApplied'[n]
              e == log[n][i]
          IN /\ i <= commitIndex[n]
             /\ <<i, e>> \in committed'
             /\ e.type = LogCommand
             /\ e.cmd.op \in {"SET", "DELETE"}
             /\ store'[n] = StateMachineApply(store[n], e.cmd)]_vars

\* Both propose calls have been answered "ok" and a node's map has been
\* changed twice, by its two apply steps.
MapChangesWitness ==
  \E n \in Node :
    /\ \A p \in 1..MaxProposals : props[p].st = "ok"
    /\ Len(delivered[n]) = MaxProposals
    /\ get(store[n], "k") = "v2"

\* C20: reads are local.  The answer of GET k on a node is taken from the
\* node's own map: it changes only by an apply step of that node, and the
\* step in which a propose call is answered "ok" changes the answer of GET
\* on no other node; so a read on a node that has not applied the entry yet
\* is stale (the witness below).
ReadsAreLocal ==
  [][/\ \A n \in Node, k \in Keys :
          handle_get(store'[n], k) # handle_get(store[n], k) => FSMApply(n, TRUE)
     /\ \A p \in 1..MaxProposals, m \in Node :
          (props[p].st = "pending" /\ props'[p].st = "ok" /\ m # props[p].node) =>
            store'[m] = store[m]]_vars

\* A call proposing SET k v has been answered "ok" and no later entry
\* modifies k, while GET k on another node, whose engine has not handled
\* the entry yet, does not return v.
StaleRead ==
  \E p \in 1..MaxProposals, x \in committed, l, m \in Node :
    /\ props[p].st = "ok"
    /\ x[2].type = LogCommand /\ x[2].pid = p /\ x[2].cmd.op = "SET"
    /\ NoLaterWrite(x[1], x[2].cmd.key)
    /\ state[l] = Leader /\ lastApplied[l] >= x[1]
    /\ handle_get(store[l], x[2].cmd.key) = x[2].cmd.value
    /\ m # l /\ up[m] /\ m \in Voters(log[l])
    /\ lastApplied[m] < x[1]
    /\ handle_get(store[m], x[2].cmd.key) # x[2].cmd.value

(* ------------------------------------------------------------------ *)
(* The threads of the store.  In the C++ process of a node (here the   *)
(* bootstrap node's) the gRPC thread serves StateMachineService::Apply  *)
(* and the HTTP thread serves the reads; both call the one              *)
(* PersistentKVStore.  A call of the store is taken in steps: the       *)
(* lock_guard is constructed, the map is read or written (a write of    *)
(* the unordered_map is not atomic: it begins and ends), the file is    *)
(* rewritten, the lock_guard is destroyed.                              *)
(* ------------------------------------------------------------------ *)
MaxCalls == 2

\* What a read of the map yields while another thread is writing it.
Torn == [torn |-> TRUE]

StorePayload ==
  {SetCmd("k", "v1"), SetCmd("j", "v2"), DeleteCmd("k"), UpsertCmd("k", "v2"),
   [raw |-> "\\xc1"]}

\* A lock_guard that does not wait for the mutex.
lock_guardNoWait(mu) == TRUE

\* std::lock_guard<std::mutex>: its constructor returns once the mutex is free.
lock_guard(mu) == mu = None

\* A persist that throws when the file cannot be written.
persistRaisesOnFailure(ioOk) == ~ioOk

\* PersistentKVStore::persist: whether it ends with an exception.  The
\* std::ofstream records a failed open or write in its state, which persist
\* does not look at, and throws nothing.
persistRaises(ioOk) == FALSE

\* PersistentKVStore::contains
contains(m, k) == m[k] # Nullopt

\* kv.db after a persist of map m that failed: the file as it was (it could
\* not be opened), or truncated and written in part.
FailedFiles(old, m) ==
  {old} \cup UNION {{SubSeq(f, 1, i) : i \in 0..(Len(f) - 1)} : f \in Files(m)}

\* The thread is between the construction and the destruction of its lock_guard.
Inside(t) == thr[t].pc \in {"in", "writing", "persist", "unlock"}

storeFrame == <<raftVars, envVars, lastApplied, delivered, props, committed, lim,
                snapshotVars, sidecarVars, appVars>>

\* StateMachineService::Apply up to its call of the store: the payload is
\* decoded; an undecodable payload and an unknown op are answered at once.
ApplyCall(b) ==
  /\ thr["apply"].pc = "idle"
  /\ thr["apply"].calls < MaxCalls
  /\ LET cmd == from_msgpack(b)
         t == thr["apply"]
     IN thr' = [thr EXCEPT !["apply"] =
          IF cmd = Thrown
            THEN [t EXCEPT !.call = NoCmd, !.calls = @ + 1, !.ioFailed = FALSE,
                           !.ret = [success |-> FALSE, status |-> "INTERNAL"]]
          ELSE IF parse_operation(cmd.op) = "UNKNOWN"
            THEN [t EXCEPT !.call = cmd, !.calls = @ + 1, !.ioFailed = FALSE,
                           !.ret = [success |-> FALSE, status |-> "OK"]]
          ELSE [t EXCEPT !.pc = "lock", !.call = cmd, !.ret = NoReturn,
                         !.ioFailed = FALSE, !.raised = FALSE]]
  /\ UNCHANGED <<store, kvdb, mutex, storeFrame>>

\* KVHttpHandler: a read of the store, get or contains, for key k.
ReadCall(op, k) ==
  /\ thr["http"].pc = "idle"
  /\ thr["http"].calls < MaxCalls
  /\ thr' = [thr EXCEPT !["http"] =
        [@ EXCEPT !.pc = "lock", !.call = [op |-> op, key |-> k, value |-> ""],
                  !.ret = NoReturn]]
  /\ UNCHANGED <<store, kvdb, mutex, storeFrame>>

\* The constructor of the lock_guard returns.
Lock(t) ==
  /\ thr[t].pc = "lock"
  /\ lock_guard(mutex)
  /\ mutex' = t
  /\ thr' = [thr EXCEPT ![t].pc = "in"]
  /\ UNCHANGED <<store, kvdb, storeFrame>>

\* set, remove: the write of the map begins.
BeginWrite ==
  /\ thr["apply"].pc = "in"
  /\ thr' = [thr EXCEPT !["apply"].pc = "writing"]
  /\ UNCHANGED <<store, kvdb, mutex, storeFrame>>

\* set, remove: the write of the map ends; set goes on to persist, remove
\* only if it erased the key.
EndWrite ==
  /\ thr["apply"].pc = "writing"
  /\ LET cmd == thr["apply"].call
         m == store[BootstrapNode]
     IN /\ store' = [store EXCEPT ![BootstrapNode] = StateMachineApply(m, cmd)]
        /\ thr' = [thr EXCEPT !["apply"].pc =
              IF parse_operation(cmd.op) = "SET" \/ erased(m, cmd.key)
                THEN "persist" ELSE "unlock"]
  /\ UNCHANGED <<kvdb, mutex, storeFrame>>

\* persist: the file is rewritten, or the write fails.
Persist(ioOk) ==
  /\ thr["apply"].pc = "persist"
  /\ \E f \in IF ioOk THEN Files(store[BootstrapNode])
                       ELSE FailedFiles(kvdb[BootstrapNode], store[BootstrapNode]) :
       kvdb' = [kvdb EXCEPT ![BootstrapNode] = f]
  /\ thr' = [thr EXCEPT !["apply"] =
        [@ EXCEPT !.pc = "unlock", !.ioFailed = ~ioOk, !.raised = persistRaises(ioOk)]]
  /\ UNCHANGED <<store, mutex, storeFrame>>

\* get, contains: the map is read.  A read while another thread writes the
\* map is a data race: it may yield anything.
Read ==
  /\ thr["http"].pc = "in"
  /\ LET c == thr["http"].call
         m == store[BootstrapNode]
         v == IF c.op = "get" THEN get(m, c.key) ELSE contains(m, c.key)
     IN \E r \in IF thr["apply"].pc = "writing"
                   THEN {[value |-> v], Torn} ELSE {[value |-> v]} :
          thr' = [thr EXCEPT !["http"] = [@ EXCEPT !.pc = "unlock", !.ret = r]]
  /\ UNCHANGED <<store, kvdb, mutex, storeFrame>>

\* The lock_guard is destroyed and the call of the store returns; Apply
\* replies success, or INTERNAL from its catch block if the store threw.
Unlock(t) ==
  /\ thr[t].pc = "unlock"
  /\ mutex' = None
  /\ thr' = [thr EXCEPT ![t] =
        [@ EXCEPT !.pc = "idle", !.calls = @ + 1,
                  !.ret = IF t # "apply" THEN @
                          ELSE IF thr[t].raised
                            THEN [success |-> FALSE, status |-> "INTERNAL"]
                            ELSE [success |-> TRUE, status |-> "OK"]]]
  /\ UNCHANGED <<store, kvdb, storeFrame>>

StoreNext ==
  \/ \E b \in StorePayload : ApplyCall(b)
  \/ \E op \in {"get", "contains"}, k \in Keys : ReadCall(op, k)
  \/ \E t \in Thread : Lock(t)
  \/ BeginWrite
  \/ EndWrite
  \/ \E ioOk \in BOOLEAN : Persist(ioOk)
  \/ Read
  \/ \E t \in Thread : Unlock(t)

StoreSpec == Init /\ [][StoreNext]_vars

\* C21: under every interleaving of the apply thread's set and remove with
\* the HTTP thread's get and contains, at most one thread is inside the
\* store at a time and it holds the mutex, no read observes the map while it
\* is being written, and kv.db is rewritten by the thread inside the store.
OneThreadInsideStore ==
  /\ Cardinality({t \in Thread : Inside(t)}) <= 1
  /\ \A t \in Thread : Inside(t) => mutex = t
  /\ thr["http"].ret # Torn
  /\ thr["http"].pc = "unlock" => thr["apply"].pc \notin {"writing", "persist"}

\* The HTTP thread waits for the mutex while the apply thread rewrites kv.db.
ReaderWaitsForWriter ==
  /\ thr["apply"].pc = "persist"
  /\ thr["http"].pc = "lock"
  /\ mutex = "apply"

\* C24: when the rewrite of kv.db fails during a set or a remove, the map
\* holds the mutation all the same, Apply replies success with status OK (no
\* error reaches the apply path) and the node keeps running.
FailedWriteIsSilent ==
  LET t == thr["apply"]
      m == store[BootstrapNode]
  IN t.pc = "idle" /\ t.ioFailed =>
       /\ t.ret = [success |-> TRUE, status |-> "OK"]
       /\ parse_operation(t.call.op) = "SET" => get(m, t.call.key) = t.call.value
       /\ parse_operation(t.call.op) = "DELETE" => get(m, t.call.key) = Nullopt
       /\ up[BootstrapNode]

\* The SET of k was answered with success, k is in the map, and kv.db was
\* left empty by the failed write.
FailedWriteWitness ==
  /\ thr["apply"].pc = "idle"
  /\ thr["apply"].ioFailed
  /\ thr["apply"].ret = [success |-> TRUE, status |-> "OK"]
  /\ get(store[BootstrapNode], "k") = "v1"
  /\ kvdb[BootstrapNode] = NoFile

(* ------------------------------------------------------------------ *)
(* Restart and replay: node A, alone in its cluster and its leader, has *)
(* committed up to MaxRestartCommands commands; its engine hands them   *)
(* to the store, the node crashes once and starts again on its DataDir  *)
(* and kv.db: the store is loaded from kv.db, the node is elected again *)
(* and the engine hands the committed entries to the store from the     *)
(* first on.  No Apply call fails in these runs.                        *)
(* ------------------------------------------------------------------ *)
MaxRestartCommands == 2

RestartPayload ==
  {SetCmd("k", TwoLines), SetCmd("k", "v1"), SetCmd("j", "v1"),
   DeleteCmd("k"), DeleteCmd("j"), UpsertCmd("k", "v2")}

RestartInit ==
  /\ ProcInit
  /\ up = [n \in Node |-> TRUE]
  /\ currentTerm = [n \in Node |-> IF n = BootstrapNode THEN 2 ELSE 0]
  /\ votedFor = [n \in Node |-> IF n = BootstrapNode THEN n ELSE None]
  /\ \E cs \in SeqsUpTo(RestartPayload, MaxRestartCommands) \ {<<>>} :
       /\ log = [n \in Node |-> IF n = BootstrapNode THEN CommittedLog(cs) ELSE <<>>]
       /\ commitIndex = [n \in Node |-> Len(log[n])]
       /\ matchIndex = [n \in Node |->
            [m \in Node |-> IF n = BootstrapNode /\ m = n THEN Len(log[n]) ELSE 0]]
       /\ committed = {<<i, log[BootstrapNode][i]>> : i \in 1..Len(log[BootstrapNode])}
  /\ state = [n \in Node |-> IF n = BootstrapNode THEN Leader ELSE Follower]
  /\ votesGranted = [n \in Node |-> IF n = BootstrapNode THEN {n} ELSE {}]
  /\ lastApplied = [n \in Node |-> 0]
  /\ store = [n \in Node |-> EmptyStore]
  /\ kvdb = [n \in Node |-> NoFile]
  /\ delivered = [n \in Node |-> <<>>]
  /\ props = [p \in 1..MaxProposals |->
        [IdleProp EXCEPT !.st = handle_insert(GrpcPropose(FALSE, ServerPropose("")))]]
  /\ part = {}
  /\ faults = 0
  /\ joins = 0
  /\ lim = [log |-> 3 + MaxRestartCommands, faults |-> 1, failures |-> 0, joins |-> 0]

RestartNext ==
  \/ \E rpcOk \in BOOLEAN : FSMApply(BootstrapNode, rpcOk)
  \/ Crash(BootstrapNode)
  \/ Restart(BootstrapNode)
  \/ Timeout(BootstrapNode)

RestartSpec == RestartInit /\ [][RestartNext]_vars

\* C22: the file written by persist for the map, read by load into a fresh
\* store, yields exactly the same map, for every map reachable by set and
\* remove with the keys and values a command may carry.
PersistLoadRoundTrip == \A n \in Node : load(kvdb[n]) = store[n]

\* C23: after a restart on the same DataDir and kv.db, once the engine has
\* handed every committed entry from the first on to the store again, the
\* map equals the result of applying all committed entries in log order to
\* an empty map: no extra key, no missing key.
RestartedMapIsLogFold ==
  LET n == BootstrapNode
  IN (/\ faults = 1 /\ up[n] /\ state[n] = Leader
      /\ commitIndex[n] = Len(log[n])
      /\ CommandIndices(log[n], lastApplied[n], commitIndex[n]) = {}
      /\ lastApplied[n] > 0) =>
       store[n] = ApplyUpTo(log[n], Len(log[n]))

(* ------------------------------------------------------------------ *)
(* Snapshots and the log store.  node.go creates the engine with        *)
(* raft.DefaultConfig() and raft.NewDiscardSnapshotStore(); the FSM's   *)
(* Snapshot returns a DummySnapshot whose Persist closes the sink.  The *)
(* engine's snapshot loop (runSnapshots) takes a snapshot once the log  *)
(* has grown by SnapshotThreshold entries since the last one; the       *)
(* discard store accepts it, and the engine then compacts the log store *)
(* up to the snapshot, keeping TrailingLogs entries.  The log store is  *)
(* followed by its indices only; entries are appended and applied in    *)
(* batches.                                                             *)
(* ------------------------------------------------------------------ *)
Batch == 2048
MaxLogIndex == 24576

\* raft.DefaultConfig()
SnapshotThreshold == 8192
TrailingLogs == 10240

\* Raft.shouldSnapshot
shouldSnapshot(lastIdx, lastSnap) == lastIdx - lastSnap >= SnapshotThreshold

\* Raft.compactLogs: the log store after the compaction for a snapshot at
\* snapIdx (DeleteRange from the first index to maxLog).
compactLogs(lg, snapIdx) ==
  IF lg.last <= TrailingLogs THEN lg
  ELSE LET maxLog == Min(snapIdx, lg.last - TrailingLogs)
       IN IF lg.first > maxLog THEN lg ELSE [lg EXCEPT !.first = maxLog + 1]

snapshotFrame == <<raftVars, envVars, fsmVars, props, committed, lim, storeVars,
                   sidecarVars, appVars>>

\* Committed entries are stored: the log grows by a batch.
StoreLogs ==
  /\ logs.last + Batch <= MaxLogIndex
  /\ logs' = [logs EXCEPT !.last = @ + Batch,
                          !.first = IF @ = 0 THEN 1 ELSE @]
  /\ UNCHANGED <<lastSnapshot, snapshotFrame>>

\* The FSM goroutine hands a batch of stored entries to CppFSM.Apply.
ApplyLogs ==
  /\ logs.applied + Batch <= logs.last
  /\ logs' = [logs EXCEPT !.applied = @ + Batch]
  /\ UNCHANGED <<lastSnapshot, snapshotFrame>>

\* Raft.runSnapshots: the snapshot timer fires; if shouldSnapshot, the FSM
\* is asked for a snapshot (CppFSM.Snapshot, at the last applied index;
\* there is nothing to snapshot while nothing has been applied),
\* DiscardSnapshotStore.Create gives a sink, DummySnapshot.Persist closes
\* it, the snapshot is recorded as the last and the logs are compacted.
runSnapshots ==
  /\ shouldSnapshot(logs.last, lastSnapshot)
  /\ logs.applied > 0
  /\ lastSnapshot' = logs.applied
  /\ logs' = compactLogs(logs, logs.applied)
  /\ UNCHANGED snapshotFrame

SnapshotNext == StoreLogs \/ ApplyLogs \/ runSnapshots

SnapshotSpec == Init /\ [][SnapshotNext]_vars

\* C25: no entry is ever removed from a node's persisted log: the first
\* index of the log store stays the first index ever stored.
LogNeverTruncated == logs.first <= 1

(* ------------------------------------------------------------------ *)
(* Startup of a sidecar and its join routine.  main parses the          *)
(* configuration, creates the node (raftnode.New: transport, engine),   *)
(* starts the management server, launches the join routine if JoinAddr  *)
(* is set, and serves proposals.  The join routine asks the leader's    *)
(* management endpoint, whose /join handler calls AddVoter; the         *)
(* endpoint also answers any other HTTP client.                         *)
(* ------------------------------------------------------------------ *)

\* DefaultJoinConfig
MaxRetries == 20
RetryInterval == 2

\* The -advertise options tried: none, a host name of the deployment, the
\* wildcard, a name that does not resolve.
Advertise == {"", "node2", "0.0.0.0", "nohost"}

Configs ==
  [NodeID : {"node2"}, RaftPort : {"8088"}, RaftAdvertise : Advertise,
   JoinAddr : {"", "node1:6000"}, Bootstrap : BOOLEAN]

\* Config.BindAddr
BindAddr(c) == "0.0.0.0:" \o c.RaftPort

\* Config.AdvertiseAddr
AdvertiseAddr(c) ==
  IF c.RaftAdvertise # "" THEN c.RaftAdvertise \o ":" \o c.RaftPort ELSE BindAddr(c)

\* net.ResolveTCPAddr in the network of the deployment.
ResolveTCPAddr(addr) ==
  CASE addr = "0.0.0.0:8088" -> [ip |-> "0.0.0.0", err |-> ""]
    [] addr = "node2:8088" -> [ip |-> "172.18.0.3", err |-> ""]
    [] OTHER -> [ip |-> "", err |-> "no such host"]

errNotAdvertisable == "local bind address is not advertisable"

\* raft.NewTCPTransport: it refuses an advertise address whose IP is
\* missing or unspecified.
NewTCPTransport(bindAddr, advAddr) ==
  IF advAddr.ip \in {"", "0.0.0.0", "::"} THEN errNotAdvertisable ELSE ""

\* createTransport: its error, "" for none.
createTransport(c) ==
  LET advAddr == ResolveTCPAddr(AdvertiseAddr(c))
  IN IF advAddr.err # ""
       THEN "failed to resolve advertise address " \o AdvertiseAddr(c) \o ": "
              \o advAddr.err
     ELSE IF NewTCPTransport(BindAddr(c), advAddr) # ""
       THEN "failed to create TCP transport: " \o NewTCPTransport(BindAddr(c), advAddr)
     ELSE ""

\* A main that logs the error of raftnode.New and goes on.
StartupFatalNever(err) == FALSE

\* main: if err != nil { log.Fatalf(...) }
StartupFatal(err) == err # ""

\* A main that hands the bind address to the join routine.
JoinRaftAddrBind(c) == BindAddr(c)

\* main: the RaftAddr it gives DefaultJoinConfig
JoinRaftAddr(c) == AdvertiseAddr(c)

\* A join loop that never sleeps.
SleepsBeforeNever(i) == FALSE

\* Joiner.Join: whether attempt i (from 0) is preceded by a sleep of
\* RetryInterval
SleepsBefore(i) == i > 0

\* The events of the join routine: a sleep of d seconds, a join request.
Sleep(d) == [ev |-> "sleep", secs |-> d]
JoinRequest == [ev |-> "request", secs |-> 0]

\* The errors AddVoter may return, "" for none.
AddVoterErrors == {"", ErrNotLeader, ErrEnqueueTimeout}

\* A handleJoin that answers 200 whatever AddVoter returned.
handleJoinAlwaysOk(method, peerID, peerAddress, err) ==
  [status |-> 200, body |-> "Joined successfully", addVoter |-> TRUE, err |-> err,
   method |-> method, peerID |-> peerID, peerAddress |-> peerAddress]

\* Server.handleJoin: the answer to a /join request, whether AddVoter was
\* called, and with what result (err, the error AddVoter returns if called).
handleJoin(method, peerID, peerAddress, err) ==
  LET r == [NoResponse EXCEPT !.method = method, !.peerID = peerID,
                              !.peerAddress = peerAddress]
  IN IF method \notin {"GET", "POST"}
       THEN [r EXCEPT !.status = 405, !.body = "Method not allowed\n"]
     ELSE IF peerAddress = "" \/ peerID = ""
       THEN [r EXCEPT !.status = 400, !.body = "Missing peerAddress or peerID\n"]
     ELSE IF err # ""
       THEN [r EXCEPT !.status = 500, !.body = err \o "\n", !.addVoter = TRUE,
                      !.err = err]
     ELSE [r EXCEPT !.status = 200, !.body = "Joined successfully",
                    !.addVoter = TRUE]

MaxInflight == 1

sidecarFrame == <<raftVars, envVars, fsmVars, props, committed, lim, storeVars,
                  snapshotVars, http>>

\* The DataDir of a node that was bootstrapped by an earlier run.
BootstrappedDisk == Bootstrap("node2", FreshDisk)

ErrCantBootstrap == "bootstrap only works on new clusters"

\* Node.Bootstrap: the error of BootstrapCluster's future, "" for none; the
\* engine refuses a node that has a term, a log or a snapshot.
BootstrapError(e) ==
  IF Len(e.log) = 0 /\ e.currentTerm = 0 THEN "" ELSE ErrCantBootstrap

\* A main that ends the process when Bootstrap fails.
BootstrapFatalOnError(err) == err # ""

\* main: if err := node.Bootstrap(); err != nil { log.Printf(...) }
BootstrapFatal(err) == FALSE

\* main: raftnode.New; a failure is fatal.
NewNode ==
  /\ main.pc = "start"
  /\ LET err == createTransport(main.cfg)
     IN main' = IF StartupFatal(err)
                  THEN [main EXCEPT !.pc = "exited"]
                  ELSE [main EXCEPT !.pc = After("start"), !.engine = (err = ""),
                                    !.steps = Append(@, "engine")]
  /\ UNCHANGED <<joiner, resp, twin, sidecarFrame>>

\* main: if cfg.Bootstrap, node.Bootstrap(); its error is logged.
BootstrapStep ==
  /\ main.pc = "bootstrap"
  /\ main' =
       IF ~main.cfg.Bootstrap THEN [main EXCEPT !.pc = After("bootstrap")]
       ELSE [main EXCEPT !.disk = Bootstrap(main.cfg.NodeID, @),
                         !.bootErr = BootstrapError(main.disk),
                         !.steps = Append(@, "bootstrap"),
                         !.pc = IF BootstrapFatal(BootstrapError(main.disk))
                                  THEN "exited" ELSE After("bootstrap")]
  /\ UNCHANGED <<joiner, resp, twin, sidecarFrame>>

\* main: management.NewServer(...).Start()
StartManagement ==
  /\ main.pc = "mgmt"
  /\ main' = [main EXCEPT !.pc = After("mgmt"), !.mgmt = TRUE,
                          !.steps = Append(@, "mgmt")]
  /\ UNCHANGED <<joiner, resp, twin, sidecarFrame>>

\* main: if JoinAddr is set, JoinAsync launches the join routine.
LaunchJoiner ==
  /\ main.pc = "join"
  /\ main' = [main EXCEPT !.pc = After("join"),
                          !.steps = IF main.cfg.JoinAddr # ""
                                      THEN Append(@, "join") ELSE @]
  /\ joiner' = IF main.cfg.JoinAddr # ""
                 THEN [NoJoiner EXCEPT !.pc = "loop", !.peerID = main.cfg.NodeID,
                                       !.peerAddress = JoinRaftAddr(main.cfg)]
                 ELSE joiner
  /\ UNCHANGED <<resp, twin, sidecarFrame>>

\* main: grpcServer.Start; on a server that was stopped already it fails,
\* which is fatal.
Serve ==
  /\ main.pc = "serve"
  /\ main' = IF main.stopping
               THEN [main EXCEPT !.pc = "exited"]
               ELSE [main EXCEPT !.pc = After("serve"), !.serving = TRUE,
                                 !.steps = Append(@, "serve")]
  /\ UNCHANGED <<joiner, resp, twin, sidecarFrame>>

\* SIGINT or SIGTERM.  Once main has set up its handler (after the join
\* step) the handler calls grpcServer.Stop, that is GracefulStop; before
\* that the signal ends the process at once.
Signal ==
  /\ main.pc # "exited"
  /\ ~main.signalled
  /\ main' = IF main.pc \in {"serve", "running"}
               THEN [main EXCEPT !.signalled = TRUE, !.stopping = TRUE]
               ELSE [main EXCEPT !.signalled = TRUE, !.pc = "exited"]
  /\ UNCHANGED <<joiner, resp, twin, sidecarFrame>>

\* Server.Propose is called: the gRPC server takes the call unless it is
\* stopping.
ProposeBegin ==
  /\ main.pc = "running"
  /\ main.serving /\ ~main.stopping
  /\ main.inflight < MaxInflight
  /\ main' = [main EXCEPT !.inflight = @ + 1]
  /\ UNCHANGED <<joiner, resp, twin, sidecarFrame>>

\* Server.Propose returns: Node.Apply has returned.
ProposeEnd ==
  /\ main.pc = "running"
  /\ main.inflight > 0
  /\ main' = [main EXCEPT !.inflight = @ - 1]
  /\ UNCHANGED <<joiner, resp, twin, sidecarFrame>>

\* GracefulStop returns once no call is being handled; grpcServer.Start
\* returns and so does main: the process exits.
Exit ==
  /\ main.pc = "running"
  /\ main.stopping
  /\ main.inflight = 0
  /\ main' = [main EXCEPT !.pc = "exited", !.serving = FALSE]
  /\ UNCHANGED <<joiner, resp, twin, sidecarFrame>>

\* Joiner.Join: time.Sleep(RetryInterval) before an attempt.
JoinSleep ==
  /\ main.pc # "exited"
  /\ joiner.pc = "loop"
  /\ SleepsBefore(joiner.i)
  /\ ~joiner.slept
  /\ joiner' = [joiner EXCEPT !.slept = TRUE, !.events = Append(@, Sleep(RetryInterval))]
  /\ UNCHANGED <<main, resp, twin, sidecarFrame>>

\* Joiner.Join: one attempt.  The request reaches the leader's handler
\* (AddVoter returning err) or the connection fails; status 200 ends the
\* routine, anything else counts as a failed attempt, the last of which
\* ends the routine with an error.
JoinAttempt(conn, err) ==
  /\ main.pc # "exited"
  /\ joiner.pc = "loop"
  /\ SleepsBefore(joiner.i) => joiner.slept
  /\ LET r == handleJoin("GET", joiner.peerID, joiner.peerAddress, err)
         status == IF conn THEN r.status ELSE 0
     IN /\ joiner' = [joiner EXCEPT
              !.events = Append(@, JoinRequest),
              !.slept = FALSE,
              !.status = status,
              !.lastErr = IF status = 200 THEN @
                          ELSE IF conn THEN "server returned status"
                          ELSE "connection failed",
              !.i = IF status = 200 THEN @ ELSE @ + 1,
              !.pc = IF status = 200 THEN "joined"
                     ELSE IF joiner.i + 1 < MaxRetries THEN "loop" ELSE "failed"]
        /\ resp' = IF conn THEN r ELSE resp
  /\ UNCHANGED <<main, twin, sidecarFrame>>

\* Any HTTP client asks the leader's /join.
ClientJoin(method, peerID, peerAddress, err) ==
  /\ resp' = handleJoin(method, peerID, peerAddress, err)
  /\ UNCHANGED <<main, joiner, twin, sidecarFrame>>

SidecarInit ==
  /\ ClusterInit
  /\ StoreProcInit
  /\ \E c \in Configs, disk \in {FreshDisk, BootstrappedDisk} :
       main = StartMain(c, disk)
  /\ joiner = NoJoiner
  /\ resp = NoResponse
  /\ twin = Twins(EmptyStore)

SidecarNext ==
  \/ NewNode
  \/ BootstrapStep
  \/ StartManagement
  \/ LaunchJoiner
  \/ Serve
  \/ Signal
  \/ ProposeBegin
  \/ ProposeEnd
  \/ Exit
  \/ JoinSleep
  \/ \E conn \in BOOLEAN, err \in AddVoterErrors : JoinAttempt(conn, err)
  \/ \E method \in {"GET", "POST", "PUT"}, peerID \in {"", "node3"},
        peerAddress \in {"", "node3:8088"}, err \in AddVoterErrors :
       ClientJoin(method, peerID, peerAddress, err)

SidecarSpec == SidecarInit /\ [][SidecarNext]_vars

\* The number of join requests among the events of the join routine.
Requests(ev) == Cardinality({j \in 1..Len(ev) : ev[j] = JoinRequest})

\* C26: the join routine issues at most 20 join requests, sleeps 2 seconds
\* between consecutive attempts, ends at the first status 200 and at the
\* last failed attempt, and sends nothing once it has succeeded or failed
\* 20 times.
JoinTerminates ==
  [][/\ Requests(joiner'.events) <= 20
     /\ \A j \in 2..Len(joiner'.events) :
          joiner'.events[j] = JoinRequest => joiner'.events[j - 1] = Sleep(2)
     /\ joiner'.status = 200 => joiner'.pc = "joined"
     /\ (joiner.status = 200 \/ Requests(joiner.events) = 20) =>
          joiner'.events = joiner.events /\ joiner'.pc = joiner.pc]_vars

\* The join routine has given up after MaxRetries failed attempts, with a
\* sleep before each attempt but the first.
JoinGaveUp ==
  /\ joiner.pc = "failed"
  /\ Requests(joiner.events) = MaxRetries
  /\ Len(joiner.events) = 2 * MaxRetries - 1

\* C27: the join routine sends no join request before an initial sleep:
\* the first of its events is a sleep.
FirstAttemptAfterSleep == joiner.events # <<>> => joiner.events[1] = Sleep(2)

\* C28: whenever a join request has been sent, its peerAddress is the
\* advertise address of the node's configuration and not the wildcard bind
\* address, whatever the configuration.
JoinSendsAdvertiseAddr ==
  Requests(joiner.events) > 0 =>
    /\ joiner.peerAddress = AdvertiseAddr(main.cfg)
    /\ joiner.peerAddress # BindAddr(main.cfg)

\* A join request was sent by a node started with an advertise option.
JoinRequestSent ==
  /\ Requests(joiner.events) > 0
  /\ main.cfg.RaftAdvertise = "node2"
  /\ joiner.peerAddress = "node2:8088"

\* The advertise address of configuration c is a wildcard or does not resolve.
BadAdvertise(c) ==
  \/ ResolveTCPAddr(AdvertiseAddr(c)).err # ""
  \/ ResolveTCPAddr(AdvertiseAddr(c)).ip = "0.0.0.0"

\* C29: if the advertise address is a wildcard (as it is when the advertise
\* option is empty) or cannot be resolved, startup fails fatally: once main
\* has called raftnode.New the process has exited, the engine is not
\* created, the management endpoint is not started, no join request is sent
\* and no proposal is served.
BadAdvertiseIsFatal ==
  (BadAdvertise(main.cfg) /\ main.pc # "start") =>
    /\ main.pc = "exited"
    /\ ~main.engine /\ ~main.mgmt /\ ~main.serving
    /\ joiner = NoJoiner

\* The sidecar started without an advertise option has exited.
EmptyAdvertiseExited ==
  /\ main.cfg.RaftAdvertise = ""
  /\ main.cfg.JoinAddr # ""
  /\ main.pc = "exited"

\* C30 as stated: /join answers 200 "Joined successfully" only if AddVoter
\* returned without error; if peerID or peerAddress is empty it answers 400
\* without calling AddVoter; if AddVoter returns an error it answers 500
\* carrying the error's text.
JoinAnswers ==
  resp # NoResponse =>
    /\ resp.status = 200 =>
         resp.body = "Joined successfully" /\ resp.addVoter /\ resp.err = ""
    /\ (resp.peerID = "" \/ resp.peerAddress = "") =>
         resp.status = 400 /\ ~resp.addVoter
    /\ (resp.addVoter /\ resp.err # "") =>
         resp.status = 500 /\ resp.body = resp.err \o "\n"

\* C30, amended: as above for a GET or POST request; a request with any
\* other method is answered 405 without calling AddVoter, whatever its
\* parameters.
JoinAnswersByMethod ==
  resp # NoResponse =>
    /\ resp.status = 200 =>
         resp.body = "Joined successfully" /\ resp.addVoter /\ resp.err = ""
    /\ (resp.method \in {"GET", "POST"} /\ (resp.peerID = "" \/ resp.peerAddress = "")) =>
         resp.status = 400 /\ ~resp.addVoter
    /\ resp.method \notin {"GET", "POST"} => resp.status = 405 /\ ~resp.addVoter
    /\ (resp.addVoter /\ resp.err # "") =>
         resp.status = 500 /\ resp.body = resp.err \o "\n"

\* The endpoint has answered 500 with the engine's error to a complete request.
JoinAnswered500 ==
  /\ resp.status = 500
  /\ resp.addVoter
  /\ resp.body = ErrNotLeader \o "\n"
  /\ resp.peerID # "" /\ resp.peerAddress # ""

(* ------------------------------------------------------------------ *)
(* Membership                                                           *)
(* ------------------------------------------------------------------ *)

\* No ID occurs twice in a list of servers.
NoDuplicate(ss) == \A i, j \in DOMAIN ss : ss[i] = ss[j] => i = j

\* The entry is new at index i: no node had it there before the step.
NewEntry(e, i) == \A m \in Node : ~(i <= Len(log[m]) /\ log[m][i] = e)

\* The servers a node holds once it has processed log lg up to index i:
\* those of the latest configuration entry among the first i.
ServersAt(lg, i) ==
  LET S == {j \in 1..i : lg[j].type = LogConfiguration}
  IN IF S = {} THEN <<>> ELSE lg[CHOOSE j \in S : \A k \in S : k <= j].servers

NodeAddVoterDropError(fut) == ""

\* Node.AddVoter: return future.Error()
NodeAddVoter(fut) == fut

\* raft.AddVoter on a node in state st: the follower and the candidate loop
\* answer the request with ErrNotLeader; the leader loop takes it (the
\* future then ends without error or with ErrLeadershipLost).
RaftAddVoter(st) == IF st = Leader THEN {"", ErrLeadershipLost} ELSE {ErrNotLeader}

mgmtFrame == <<storeVars, snapshotVars, appVars, main, joiner, lim, fsmVars, up, part,
               faults, currentTerm, votedFor, state, votesGranted>>

\* Server.handleJoin on node n for a request of node m: AddVoter is called
\* on n's engine.  The leader appends the configuration entry once its
\* configuration is stable; any other node changes nothing.
JoinAt(n, m) ==
  /\ m # n
  /\ Connected(n, m)
  /\ joins < lim.joins
  /\ joins' = joins + 1
  /\ \E fut \in RaftAddVoter(state[n]) :
       resp' = handleJoin("POST", m, m \o ":8088", NodeAddVoter(fut))
  /\ IF state[n] = Leader
       THEN /\ Len(log[n]) < lim.log
            /\ LatestConfigIndex(log[n]) <= commitIndex[n]
            /\ commitIndex[n] > 0 /\ log[n][commitIndex[n]].term = currentTerm[n]
            /\ LET lg == Append(log[n], ConfigEntry(currentTerm[n],
                                   nextConfiguration(Servers(log[n]), m)))
                   mi == [matchIndex[n] EXCEPT ![n] = Len(lg)]
               IN /\ log' = [log EXCEPT ![n] = lg]
                  /\ matchIndex' = [matchIndex EXCEPT ![n] = mi]
                  /\ commitIndex' = [commitIndex EXCEPT ![n] =
                        LeaderCommit(lg, mi, @, currentTerm[n])]
       ELSE UNCHANGED <<log, matchIndex, commitIndex>>
  /\ props' = LeadershipLost(props, state, state')
  /\ committed' = Committed(log', commitIndex')
  /\ UNCHANGED mgmtFrame

MgmtNext ==
  \/ \E n \in Node : Timeout(n)
  \/ \E c, v \in Node : RequestVote(c, v)
  \/ \E l, f \in Node : AppendEntries(l, f)
  \/ \E n, m \in Node : JoinAt(n, m)

MgmtSpec == Init /\ [][MgmtNext]_vars

\* C31: a join request received by a node that is not the leader is
\* answered with an error, never 200, and leaves the voting membership of
\* every node unchanged.
NonLeaderJoinRejected ==
  [][\A n, m \in Node :
       (JoinAt(n, m) /\ state[n] # Leader) =>
         /\ resp'.status >= 400
         /\ resp'.status # 200
         /\ \A k \in Node : Voters(log'[k]) = Voters(log[k])]_vars

\* A node that is not the leader has answered a join request with the
\* engine's error while another node leads the cluster.
NonLeaderJoinWitness ==
  /\ resp.status = 500
  /\ resp.addVoter
  /\ resp.err = ErrNotLeader
  /\ \E l \in Node : state[l] = Leader /\ resp.peerID # l /\ resp.peerID \notin Voters(log[l])

(* ------------------------------------------------------------------ *)
(* Proposals reported as failed                                         *)
(* ------------------------------------------------------------------ *)

\* Node n has handed the entry of propose call p to its store.
AppliedProposal(p, n) ==
  \E i \in 1..Min(lastApplied[n], Len(log[n])) :
    log[n][i].type = LogCommand /\ log[n][i].pid = p

\* C36: once a propose call has been answered "error", its entry is not
\* committed afterwards and is not applied afterwards on any node.
FailedProposalNeverTakesEffect ==
  [][\A p \in 1..MaxProposals :
       props[p].st = "error" =>
         /\ ProposalCommitted(p)' => ProposalCommitted(p)
         /\ \A n \in Node : AppliedProposal(p, n)' => AppliedProposal(p, n)]_vars

(* ------------------------------------------------------------------ *)
(* Replay of the log after a restart                                    *)
(* ------------------------------------------------------------------ *)

\* The commands of node n's log, and the map they produce from an empty one.
LogCommands(n) == AppliedPayloads(log[n], Len(log[n]))
LogMap(n) == Fold(EmptyStore, LogCommands(n))

\* The node's map is the map of its log with the commands the engine has
\* handed over since the start of the sidecar applied on top of it.
ReplayedOnTop(n) ==
  store[n] = Fold(LogMap(n), AppliedPayloads(log[n], lastApplied[n]))

\* Node n has started again and its engine has handed every entry over.
Replayed(n) ==
  /\ faults = 1 /\ up[n]
  /\ lastApplied[n] > 0
  /\ CommandIndices(log[n], lastApplied[n], Len(log[n])) = {}

\* C37: replay is idempotent on the map: applying the commands of a log
\* (SET, DELETE, unknown op) to the map they produced from an empty map
\* gives that map again; so a node restarted on the map its log had
\* produced, whose engine hands the whole log over again, holds the
\* replayed commands on top of that map at every step and ends in the map
\* it had before the restart.
ReplayIdempotent ==
  /\ [](\A n \in Node : Fold(LogMap(n), LogCommands(n)) = LogMap(n))
  /\ [][\A n \in Node :
          (faults = 1 /\ up[n] /\ up'[n] /\ ReplayedOnTop(n)) => ReplayedOnTop(n)']_vars
  /\ [](\A n \in Node : (Replayed(n) /\ ReplayedOnTop(n)) => store[n] = LogMap(n))

\* The node has started again on the map of its log, a map with a key in
\* it, and has been handed a log with an unknown-op command once more.
ReplayWitness ==
  LET n == BootstrapNode
  IN /\ Replayed(n)
     /\ ReplayedOnTop(n)
     /\ store[n] # EmptyStore
     /\ \E i \in 1..Len(LogCommands(n)) : UnknownOp(LogCommands(n)[i])
     /\ Len(LogCommands(n)) = MaxRestartCommands

(* ------------------------------------------------------------------ *)
(* The legacy state machine of main.cpp beside the refactored one: both *)
(* start on the same map and are handed the same payloads.              *)
(* ------------------------------------------------------------------ *)
MaxFed == 3

\* The maps the two state machines start on.
StartMaps == {EmptyStore, set(EmptyStore, "k", "v1"), set(set(EmptyStore, "k", "v2"), "j", "v1")}

\* A legacy Apply that erases the key for every op other than SET.
StateMachineImplErases(m, cmd) ==
  IF cmd.op = "SET" THEN [m EXCEPT ![cmd.key] = cmd.value]
  ELSE [m EXCEPT ![cmd.key] = Nullopt]

\* StateMachineImpl::Apply (main.cpp) on a decoded command: the global map
\* afterwards (store[cmd.key] = cmd.value; store.erase(cmd.key)).
StateMachineImplApply(m, cmd) ==
  IF cmd.op = "SET" THEN [m EXCEPT ![cmd.key] = cmd.value]
  ELSE IF cmd.op = "DELETE" THEN [m EXCEPT ![cmd.key] = Nullopt]
  ELSE m

\* StateMachineImpl::Apply (main.cpp) on payload b: msgpack::unpack and
\* convert, which throw on an object that is no map and leave a field the
\* map lacks empty; the exception is caught and answered CANCELLED, every
\* converted command is answered success.
LegacyApplyRpc(m, b) ==
  IF "raw" \in DOMAIN b
    THEN [store |-> m, success |-> FALSE, status |-> "CANCELLED"]
    ELSE [store |-> StateMachineImplApply(m,
                      [op |-> Field(b, "op"), key |-> Field(b, "key"),
                       value |-> Field(b, "value")]),
          success |-> TRUE, status |-> "OK"]

twinFrame == <<raftVars, envVars, fsmVars, props, committed, lim, storeVars,
               snapshotVars, sidecarVars, http>>

\* The engine hands payload b to either state machine.
FeedBoth(b) ==
  /\ twin.fed < MaxFed
  /\ twin' = [refactored |-> ApplyRpc(twin.refactored, b).store,
              legacy |-> LegacyApplyRpc(twin.legacy, b).store,
              fed |-> twin.fed + 1,
              last |-> b]
  /\ UNCHANGED twinFrame

TwinInit ==
  /\ ClusterInit
  /\ StoreProcInit
  /\ SidecarProcInit
  /\ \E m \in StartMaps : twin = Twins(m)

TwinNext == \E b \in AnyPayload : FeedBoth(b)

TwinSpec == TwinInit /\ [][TwinNext]_vars

\* C39: started from the same map and fed the same sequence of payloads
\* (valid, unknown-op, empty-key and undecodable ones), the refactored
\* state machine and the legacy one hold the same map after every step.
SameMapAfterEveryStep == twin.refactored = twin.legacy

\* Both state machines have been fed MaxFed payloads, the last of them
\* undecodable, and hold a map with the empty key in it.
TwinWitness ==
  /\ twin.fed = MaxFed
  /\ "raw" \in DOMAIN twin.last
  /\ twin.legacy[""] # Nullopt
  /\ twin.refactored[""] # Nullopt

(* ------------------------------------------------------------------ *)
(* The ingress HTTP server of a node.  Clients connect at any time and  *)
(* wait in the listen queue; HttpServer::run accepts a connection and   *)
(* calls handle_connection, which receives the request, has the handler *)
(* answer it (handle_insert blocks in GrpcRaftClient::propose until the *)
(* sidecar answers or the deadline passes), sends the response and      *)
(* closes the connection.                                               *)
(* ------------------------------------------------------------------ *)
MaxConns == 4

\* What a client sends on its connection: POST /insert-val, GET /get-val,
\* a request for another path, or nothing that parses as a request.
Sends == {"insert", "get", "other", "garbage"}

\* A run that hands every accepted connection to a thread of its own.
runAcceptsAlways(handling) == TRUE

\* HttpServer::run: accept is called again once handle_connection has
\* returned.
runAccepts(handling) == handling = <<>>

\* The connections being handled that are blocked in propose.
Proposing(h) == {i \in 1..Len(h.handling) : h.handling[i].pc = "propose"}

\* The sequence without its i-th element.
Without(q, i) == SubSeq(q, 1, i - 1) \o SubSeq(q, i + 1, Len(q))

httpFrame == <<raftVars, envVars, fsmVars, props, committed, lim, storeVars,
               snapshotVars, sidecarVars, twin>>

\* A client connects; the connection waits in the listen queue.
Connect(r) ==
  /\ http.conns < MaxConns
  /\ http' = [http EXCEPT !.backlog = Append(@, r), !.conns = @ + 1]
  /\ UNCHANGED httpFrame

\* HttpServer::run: accept returns the first connection of the queue and
\* handle_connection is called with it.
Accept ==
  /\ runAccepts(http.handling)
  /\ http.backlog # <<>>
  /\ http' = [http EXCEPT !.backlog = Tail(@),
                          !.handling = Append(@, [req |-> Head(http.backlog),
                                                  pc |-> "recv"])]
  /\ UNCHANGED httpFrame

\* handle_connection: recv and parse; a connection without a request is
\* closed; a GET or a request for another path is answered and the
\* connection closed; a POST /insert-val calls propose.
Receive(i) ==
  /\ i \in 1..Len(http.handling)
  /\ http.handling[i].pc = "recv"
  /\ LET r == http.handling[i].req
     IN http' =
          IF r = "garbage" THEN [http EXCEPT !.handling = Without(@, i)]
          ELSE IF r = "insert"
            THEN [http EXCEPT !.handling[i].pc = "propose", !.received = @ + 1]
          ELSE [http EXCEPT !.handling = Without(@, i), !.received = @ + 1,
                            !.sent = @ + 1,
                            !.gets = IF r = "get" THEN @ + 1 ELSE @]
  /\ UNCHANGED httpFrame

\* handle_insert: propose returns; the response is sent and the connection
\* closed.
InsertAnswered(i, success) ==
  /\ i \in 1..Len(http.handling)
  /\ http.handling[i].pc = "propose"
  /\ http' = [http EXCEPT !.handling = Without(@, i), !.sent = @ + 1]
  /\ UNCHANGED httpFrame

HttpNext ==
  \/ \E r \in Sends : Connect(r)
  \/ Accept
  \/ \E i \in 1..MaxConns : Receive(i)
  \/ \E i \in 1..MaxConns, success \in BOOLEAN : InsertAnswered(i, success)

HttpSpec == Init /\ [][HttpNext]_vars

\* C38: the ingress HTTP server handles connections strictly one at a
\* time: the handling of a connection starts only when every connection
\* accepted before is closed and every request received has its response;
\* so at most one proposal of the node's ingress is in flight, and no GET
\* is served while a proposal of the node is pending.
OneConnectionAtATime ==
  /\ [](Len(http.handling) <= 1 /\ Cardinality(Proposing(http)) <= 1)
  /\ [][/\ Len(http'.handling) > Len(http.handling) =>
             http.handling = <<>> /\ http.sent = http.received
        /\ http'.gets > http.gets => Proposing(http) = {}]_vars

\* A proposal is in flight while a GET and another POST wait in the listen
\* queue.
ProposalHoldsQueue ==
  /\ Proposing(http) # {}
  /\ Len(http.backlog) >= 2
  /\ \E i, j \in 1..Len(http.backlog) : http.backlog[i] = "get" /\ http.backlog[j] = "insert"


\* ---------------------------------------------------------------------
\* Startup and shutdown of the sidecar's main
\* ---------------------------------------------------------------------

HasState(d) == Len(d.log) > 0 \/ d.currentTerm > 0

\* C33: Bootstrap on a node that already has cluster state returns an
\* error and leaves the log, the term and with them the membership as they
\* were; main does not end on it but goes on to the management server, and
\* a process whose Bootstrap failed ends only on a termination signal.
BootstrapOverStateNotFatal ==
  /\ [](main.bootErr # "" /\ main.pc = "exited" => main.signalled)
  /\ [][(/\ main.pc = "bootstrap"
         /\ main.cfg.Bootstrap
         /\ HasState(main.disk)
         /\ main'.steps # main.steps)
        => /\ main'.bootErr # ""
           /\ main'.disk = main.disk
           /\ Servers(main'.disk.log) = Servers(main.disk.log)
           /\ main'.pc = "mgmt"]_vars

\* A node restarted with Bootstrap=true over a bootstrapped disk serves
\* proposals, with the error of Bootstrap logged and the disk as it was.
BootstrapOverStateWitness ==
  /\ main.cfg.Bootstrap
  /\ main.bootErr = ErrCantBootstrap
  /\ main.disk = BootstrappedDisk
  /\ main.mgmt /\ main.serving
  /\ main.inflight = 1

\* The steps main takes with configuration c.
ExpectedSteps(c) ==
  <<"engine">> \o (IF c.Bootstrap THEN <<"bootstrap">> ELSE <<>>) \o <<"mgmt">>
  \o (IF c.JoinAddr # "" THEN <<"join">> ELSE <<>>) \o <<"serve">>

IsPrefix(a, b) == Len(a) <= Len(b) /\ SubSeq(b, 1, Len(a)) = a

\* C35: the steps main has taken are always a prefix of: engine, Bootstrap
\* (when Bootstrap=true), management endpoint, join routine (when JoinAddr
\* is set), proposal server; the join routine runs and a proposal is being
\* handled only after the engine was constructed, a serving node has taken
\* all its steps, and a main whose engine was not constructed has ended
\* with no step taken.
StartupInOrder ==
  /\ IsPrefix(main.steps, ExpectedSteps(main.cfg))
  /\ (joiner.pc # "off" => main.engine)
  /\ (main.inflight > 0 => main.engine /\ main.serving)
  /\ (main.serving => main.steps = ExpectedSteps(main.cfg))
  /\ ((main.pc # "start" /\ ~main.engine)
        => /\ main.pc = "exited"
           /\ main.steps = <<>>
           /\ ~main.mgmt /\ ~main.serving
           /\ joiner.pc = "off")

\* A node with Bootstrap=true and a JoinAddr has taken all five steps, its
\* join routine has sent a request and a proposal is being handled.
StartupInOrderWitness ==
  /\ main.steps = <<"engine", "bootstrap", "mgmt", "join", "serve">>
  /\ Requests(joiner.events) > 0
  /\ main.inflight = 1

\* C34: a process that ends after its signal handler has stopped the
\* proposal server has shut the consensus engine down.
EngineStoppedBeforeExit ==
  (main.stopping /\ main.pc = "exited") => main.shutdown
====
